---------------------------- MODULE Spec2Model ----------------------------
(***************************************************************************)
(* ladybug-charts: the gap-fill / binning pipeline behind the charts.      *)
(*                                                                         *)
(* Numbers.  Measured values, wind speeds and wind directions are floats   *)
(* in the program; here they are integers counting hundredths (a speed of  *)
(* 0.5 m/s is 50, a direction of 11.25 degrees is 1125).  A datetime is    *)
(* its minute of the year, so that DateTime.hoy (a float hour of the year) *)
(* is moy / 60 and is a whole hour exactly when moy is a multiple of 60.   *)
(* None / NaN is the empty tuple <<>>, a present value v is <<v>>.         *)
(***************************************************************************)
EXTENDS Integers, Sequences, FiniteSets, TLC

VARIABLES
    pc,          \* "ready": inputs chosen, "returned": the call returned, "raised": it raised
    fn,          \* the function the call entered
    err,         \* the exception class a raised call ended in, "" otherwise
    hourly_data, \* the collection handed to discontinuous_to_continuous / heat_map
    min_range,   \* heat_map(min_range=...): None or <<v>>
    max_range,   \* heat_map(max_range=...): None or <<v>>
    values,      \* the values of the returned HourlyContinuousCollection
    data_range,  \* the [min, max] discontinuous_to_continuous returned
    range_z,     \* heat_map's zmin, zmax
    read,        \* the attributes of the argument the call read, in order
    wind_speed,  \* wind_rose.analysis_data_collection
    wind_dir,    \* wind_rose.direction_data_collection
    analysis_period, \* wind_rose.analysis_period: st_month, end_month, st_hour, end_hour
    df,          \* wind_rose's data frame: its value columns, its index after the filter
    total_count, \* wind_rose: df.shape[0] after the filter
    calm_count,  \* wind_rose: the rows with wind_speed == 0
    rose,        \* wind_rose's frequency table
    legend_colors, \* wind_rose.legend_parameters.colors
    traces,      \* wind_rose: the Barpolar traces added to the figure, in order
    monthly_per_hour, \* get_monthly_values: data.values of the MonthlyPerHourCollection
    monthly_values,   \* the list of lists get_monthly_values returned; the chart's averages
    diurnal_data,     \* diurnal_average_chart_from_hourly(data)
    monthly_lower_values,  \* the chart's lower envelope
    monthly_higher_values, \* the chart's upper envelope
    frequency,   \* dataframe(frequency): the argument of the last call
    data_frame,  \* the frame the last direct call of dataframe returned, with its rows
    obtained,    \* the frame the last call got from dataframe, as it got it
    frames,      \* the DataFrame objects still referenced after the call, as they are now
    first_built, \* for each granularity, the first frame returned, as it was returned
    prev_fn,     \* the call before the last one
    title,       \* title=...: None or <<text>>
    show_title,  \* show_title=...
    data_name,   \* data.header.data_type.name of the data handed to the chart
    data_type,   \* the class of the data handed to the chart
    done,        \* what the chart has computed when the call ends, in order
    fig_title,   \* fig.layout.title: None or <<text>>, a text being a list of parts
    bar_data,    \* bar_chart(data=...): the classes of the items of the list
    bar_colors,  \* bar_chart(colors=...): None or <<number of colors>>
    center_title, \* bar_chart(center_title=...)
    stack,       \* bar_chart(stack=...)
    y_range,     \* bar_chart's range of the y axis: None or <<lower, upper>>
    bar_layout,  \* bar_chart's figure: traces, barmode, title, legend
    polygon_pmv, \* _psych_chart(polygon_pmv=...): given or not
    strategies,  \* _psych_chart(strategies=...): None or a list of members of Strategy
    solar_data,  \* _psych_chart(solar_data=...): given or not
    psych_step,  \* the strategy blocks _psych_chart has gone through
    polygons,    \* _psych_chart's list polygons
    polygon_names, \* _psych_chart's list polygon_names
    polygon_data,  \* _psych_chart's list polygon_data
    warned,      \* the messages printed or warned so far
    psych_traces, \* the Scatter traces of the polygons
    colorset,    \* a member of the enum ColorSet
    given_colors, \* the colors argument: None or a list of colors
    colorscale   \* the colors the legend gets

callVars == <<pc, fn, err>>

fillVars == <<hourly_data, min_range, max_range, values, data_range, range_z, read>>

roseVars ==
    <<wind_speed, wind_dir, analysis_period, df, total_count, calm_count, rose,
      legend_colors, traces>>

monthVars ==
    <<monthly_per_hour, monthly_values, diurnal_data, monthly_lower_values,
      monthly_higher_values>>

calVars == <<frequency, data_frame, obtained, frames, first_built, prev_fn>>

titleVars == <<title, show_title, data_name, data_type, done, fig_title>>

barVars == <<bar_data, bar_colors, center_title, stack, y_range, bar_layout>>

psychVars ==
    <<polygon_pmv, strategies, solar_data, psych_step, polygons, polygon_names,
      polygon_data, warned, psych_traces>>

colorVars == <<colorset, given_colors, colorscale>>

figVars == <<titleVars, barVars, psychVars, colorVars>>

vars == <<callVars, fillVars, roseVars, monthVars, calVars, figVars>>

----------------------------------------------------------------------------
(* Bounds of the model. *)

\* longest sparse series handed to the gap filler
MaxLen == 2

\* most observations of a sparse wind series
MaxObs == 1

\* largest step between two neighbouring values of a generated series
MaxStep == 4

----------------------------------------------------------------------------
(* Program constants. *)

\* range(8760): the slots of the hourly grid
NumSlots == 8760

MinutesPerHour == 60

None == <<>>

Some(v) == <<v>>

Unused == "unused"

\* the variables of the psychrometric chart take no part in the call
PsychUnused ==
    /\ polygon_pmv = Unused /\ strategies = Unused /\ solar_data = Unused
    /\ psych_step = Unused /\ polygons = Unused /\ polygon_names = Unused
    /\ polygon_data = Unused /\ warned = Unused /\ psych_traces = Unused
    /\ colorset = Unused /\ given_colors = Unused /\ colorscale = Unused

\* the variables of the figures take no part in the call
FigUnused ==
    /\ title = Unused /\ show_title = Unused /\ data_name = Unused
    /\ data_type = Unused
    /\ done = Unused /\ fig_title = Unused
    /\ bar_data = Unused /\ bar_colors = Unused /\ center_title = Unused
    /\ stack = Unused /\ y_range = Unused /\ bar_layout = Unused
    /\ PsychUnused

\* a Python list as a sequence: position k holds the list's item k - 1
List(f) == SubSeq(f, 1, Cardinality(DOMAIN f))

\* the item at index i of a Python list
At(list, i) == list[i + 1]

Slots == 0 .. (NumSlots - 1)

Min(S) == CHOOSE x \in S : \A y \in S : x <= y

Max(S) == CHOOSE x \in S : \A y \in S : x >= y

RECURSIVE SumSeq(_)
SumSeq(q) == IF q = <<>> THEN 0 ELSE Head(q) + SumSeq(Tail(q))

----------------------------------------------------------------------------
(* ladybug's collection classes, as far as the charts look at them.        *)

\* isinstance(data, HourlyDiscontinuousCollection): ladybug declares
\* HourlyContinuousCollection a subclass of HourlyDiscontinuousCollection.
IsHourlyDiscontinuous(data) ==
    data.type \in {"HourlyDiscontinuousCollection", "HourlyContinuousCollection"}

\* hoys = [dt.hoy for dt in data.datetimes], in sixtieths of an hour
hoys(data) == data.datetimes

\* dict(zip(ks, vs)) over the positions lo..hi: a later pair replaces an
\* earlier one with the same key (f @@ g keeps f where both are defined)
RECURSIVE dict(_, _, _, _)
dict(ks, vs, lo, hi) ==
    IF lo > hi THEN <<>>
    ELSE IF lo = hi THEN ks[lo] :> vs[lo]
    ELSE LET mid == (lo + hi) \div 2
         IN  dict(ks, vs, mid + 1, hi) @@ dict(ks, vs, lo, mid)

\* hoy_val = dict(zip(hoys, data.values)); zip stops at the shorter list
hoy_val(data) ==
    LET hs == hoys(data)
        n  == IF Len(hs) <= Len(data.values) THEN Len(hs) ELSE Len(data.values)
    IN  dict(hs, data.values, 1, n)

\* (mutant) the range taken after the fill, a gap counting as 0
RangeOf_AfterFill(hv) ==
    LET vs == {hv[h] : h \in DOMAIN hv}
               \cup (IF Cardinality(DOMAIN hv) < NumSlots THEN {0} ELSE {})
    IN  <<Min(vs), Max(vs)>>

\* [min(hoy_val.values()), max(hoy_val.values())]
RangeOf(hv) ==
    LET vs == {hv[h] : h \in DOMAIN hv}
    IN  <<Min(vs), Max(vs)>>

\* (mutant) a gap filled with the number 0 instead of None
FilledValues_ZeroFill(hv) ==
    LET keys == DOMAIN hv
    IN  List([k \in 1 .. NumSlots |->
                IF (k - 1) * MinutesPerHour \in keys
                    THEN Some(hv[(k - 1) * MinutesPerHour])
                    ELSE Some(0)])

\* (mutant) slots counted from 1: slot count holds hour count + 1
FilledValues_Shifted(hv) ==
    LET keys == DOMAIN hv
    IN  List([k \in 1 .. NumSlots |->
                IF k * MinutesPerHour \in keys
                    THEN Some(hv[k * MinutesPerHour])
                    ELSE None])

\* for count in range(8760): hoy_val[count] if count in hoy_val else None.
\* The integer count equals the float key dt.hoy exactly when the datetime
\* sits on the whole hour count.  The list's position k holds slot k - 1.
FilledValues(hv) ==
    LET keys == DOMAIN hv
    IN  List([k \in 1 .. NumSlots |->
                IF (k - 1) * MinutesPerHour \in keys
                    THEN Some(hv[(k - 1) * MinutesPerHour])
                    ELSE None])

---------------------------------------------------------------------------------------------------------------------------------------------------
(* Inputs. *)

\* minutes of the year of the sample datetimes: hour 0, hour 100, hour 8759;
\* 00:30 of a half-hourly series; hour 8760, the first hour of day 366 of a
\* leap year
SampleMoys == {0, 6000, 525540, 30, 525600}

SampleValues == {1000, 2000}

Pairs == SampleMoys \X SampleValues

SparseSeqs == UNION {[1 .. n -> Pairs] : n \in 0 .. MaxLen}

Collection(type, ps) ==
    [type |-> type,
     datetimes |-> [k \in DOMAIN ps |-> ps[k][1]],
     values |-> [k \in DOMAIN ps |-> ps[k][2]]]

\* an annual hourly series: slot i holds a + ((i * b) % m)
Complete(type, a, b, m) ==
    [type |-> type,
     datetimes |-> List([k \in 1 .. NumSlots |-> (k - 1) * MinutesPerHour]),
     values |-> List([k \in 1 .. NumSlots |-> a + (((k - 1) * b) % m)])]

FillInputs ==
    {Collection("HourlyDiscontinuousCollection", ps) : ps \in SparseSeqs}
    \cup {Complete("HourlyContinuousCollection", -300, 7, 13),
          Complete("HourlyDiscontinuousCollection", 0, 5, 11)}
    \cup {Collection("DailyCollection", <<<<0, 1000>>>>)}

RangeArgs == {None, Some(0), Some(1500)}

InitFill ==
    /\ pc = "ready"
    /\ fn = ""
    /\ err = ""
    /\ hourly_data \in FillInputs
    /\ min_range = Unused
    /\ max_range = Unused
    /\ values = Unused
    /\ data_range = Unused
    /\ range_z = Unused
    /\ read = <<>>
    /\ wind_speed = Unused /\ wind_dir = Unused /\ analysis_period = Unused
    /\ legend_colors = Unused /\ traces = Unused
    /\ df = Unused /\ total_count = Unused /\ calm_count = Unused /\ rose = Unused
    /\ frequency = Unused /\ data_frame = Unused /\ obtained = Unused
    /\ frames = Unused /\ first_built = Unused /\ prev_fn = Unused
    /\ FigUnused
    /\ monthly_per_hour = Unused /\ monthly_values = Unused
    /\ diurnal_data = Unused
    /\ monthly_lower_values = Unused /\ monthly_higher_values = Unused

----------------------------------------------------------------------------
(* discontinuous_to_continuous(data): what the call ends in.               *)

\* (mutant) the class of the argument is looked at after the dictionary has
\* been built from its datetimes and values
discontinuous_to_continuous_LateCheck(data) ==
    LET hv == hoy_val(data)
    IN  IF ~IsHourlyDiscontinuous(data)
          THEN [raised |-> "AssertionError", read |-> <<"datetimes", "values">>]
          ELSE IF hv = <<>>
                 THEN [raised |-> "ValueError", read |-> <<"datetimes", "values">>]
                 ELSE [raised |-> "",
                       read |-> <<"datetimes", "values">>,
                       data_range |-> RangeOf(hv),
                       values |-> FilledValues(hv)]

\* (mutant) a series without a value comes back as 8760 gaps with the range
\* [0, 0]
discontinuous_to_continuous_AllGaps(data) ==
    IF ~IsHourlyDiscontinuous(data)
      THEN [raised |-> "AssertionError", read |-> <<>>]
      ELSE LET hv == hoy_val(data)
           IN  [raised |-> "",
                read |-> <<"datetimes", "values">>,
                data_range |-> IF hv = <<>> THEN <<0, 0>> ELSE RangeOf(hv),
                values |-> FilledValues(hv)]

\* the assertion on the class comes first, then data.datetimes and
\* data.values are read; min() of a dictionary without values raises
\* ValueError
discontinuous_to_continuous(data) ==
    IF ~IsHourlyDiscontinuous(data)
      THEN [raised |-> "AssertionError", read |-> <<>>]
      ELSE LET hv == hoy_val(data)
           IN  IF hv = <<>>
                 THEN [raised |-> "ValueError", read |-> <<"datetimes", "values">>]
                 ELSE [raised |-> "",
                       read |-> <<"datetimes", "values">>,
                       data_range |-> RangeOf(hv),
                       values |-> FilledValues(hv)]

DiscontinuousToContinuous ==
    /\ pc = "ready"
    /\ fn' = "discontinuous_to_continuous"
    /\ \E r \in {discontinuous_to_continuous(hourly_data)} :
          /\ read' = r.read
          /\ IF r.raised # ""
               THEN /\ pc' = "raised"
                    /\ err' = r.raised
                    /\ UNCHANGED <<values, data_range>>
               ELSE /\ pc' = "returned"
                    /\ err' = ""
                    /\ data_range' = r.data_range
                    /\ values' = r.values
    /\ UNCHANGED <<hourly_data, min_range, max_range, range_z>>
    /\ UNCHANGED roseVars
    /\ UNCHANGED monthVars
    /\ UNCHANGED calVars
    /\ UNCHANGED figVars

----------------------------------------------------------------------------
(* heat_map(hourly_data, min_range, max_range)                             *)

\* (mutant) if min_range: / if max_range: an argument of 0 is not used
RangeZ_Truthy(dr, mn, mx) ==
    <<IF mn # None /\ mn[1] # 0 THEN mn[1] ELSE dr[1],
      IF mx # None /\ mx[1] # 0 THEN mx[1] ELSE dr[2]>>

\* range_z = [data_range[0], data_range[1]], each end replaced when its
\* argument is not None
RangeZ(dr, mn, mx) ==
    <<IF mn # None THEN mn[1] ELSE dr[1], IF mx # None THEN mx[1] ELSE dr[2]>>

\* the assertion on the argument's class, then the gap fill; ladybug's
\* HourlyContinuousCollection is an HourlyDiscontinuousCollection, so the
\* first branch of the isinstance test is taken for both classes
heat_map_data(data) ==
    IF data.type \notin {"HourlyContinuousCollection", "HourlyDiscontinuousCollection"}
      THEN [raised |-> "AssertionError", read |-> <<>>]
      ELSE IF IsHourlyDiscontinuous(data)
             THEN discontinuous_to_continuous(data)
             ELSE [raised |-> "",
                   read |-> <<"min", "max">>,
                   data_range |-> <<Min({data.values[k] : k \in DOMAIN data.values}),
                                    Max({data.values[k] : k \in DOMAIN data.values})>>,
                   values |-> List([k \in DOMAIN data.values |-> Some(data.values[k])])]

HeatMap ==
    /\ pc = "ready"
    /\ fn' = "heat_map"
    /\ \E r \in {heat_map_data(hourly_data)} :
           \E mn \in RangeArgs, mx \in RangeArgs :
             /\ min_range' = mn
             /\ max_range' = mx
             /\ read' = r.read
             /\ IF r.raised # ""
                  THEN /\ pc' = "raised"
                       /\ err' = r.raised
                       /\ UNCHANGED <<values, data_range, range_z>>
                  ELSE /\ pc' = "returned"
                       /\ err' = ""
                       /\ data_range' = r.data_range
                       /\ values' = r.values
                       /\ range_z' = RangeZ(r.data_range, mn, mx)
    /\ UNCHANGED hourly_data
    /\ UNCHANGED roseVars
    /\ UNCHANGED monthVars
    /\ UNCHANGED calVars
    /\ UNCHANGED figVars

NextFill == DiscontinuousToContinuous \/ HeatMap

SpecFill == InitFill /\ [][NextFill]_vars

----------------------------------------------------------------------------
(* dataframe(): the hourly grid of the reference year 2019.                *)

DaysInMonth == <<31, 28, 31, 30, 31, 30, 31, 31, 30, 31, 30, 31>>

HoursPerDay == 24

RECURSIVE DaysBefore(_)
\* the days of 2019 before the first of month m
DaysBefore(m) == IF m = 1 THEN 0 ELSE DaysBefore(m - 1) + DaysInMonth[m - 1]

\* index.month of the day that starts d days after 2019-01-01
MonthOfDay(d) == CHOOSE m \in 1 .. 12 : DaysBefore(m) <= d /\ d < DaysBefore(m) + DaysInMonth[m]

\* MONTHS = [month[:3] for month in month_name[1:]]
MONTHS == <<"Jan", "Feb", "Mar", "Apr", "May", "Jun", "Jul", "Aug", "Sep", "Oct", "Nov", "Dec">>

\* class Frequency(Enum)
HOURLY == [name |-> "HOURLY", value |-> "H"]

DAILY == [name |-> "DAILY", value |-> "D"]

MONTHLY == [name |-> "MONTHLY", value |-> "M"]

\* A timestamp is the number of minutes since 2019-01-01 00:00:00 UTC.
MinutesPerDay == HoursPerDay * MinutesPerHour

\* "2020-01-01"
NextYear == NumSlots * MinutesPerHour

\* the attributes of a timestamp of 2019 or of the first days of 2020
YearOf(t) == 2019 + (t \div NextYear)

DayOfYear(t) == (t % NextYear) \div MinutesPerDay

\* the month and the day of the month of every day of the year
MonthsOfYear == List([d \in 1 .. 365 |-> MonthOfDay(d - 1)])

DaysOfYear == List([d \in 1 .. 365 |-> d - DaysBefore(MonthOfDay(d - 1))])

MonthOf(t) == At(MonthsOfYear, DayOfYear(t))

DayOf(t) == At(DaysOfYear, DayOfYear(t))

HourOf(t) == (t \div MinutesPerHour) % HoursPerDay

\* the month ends of 2019, the "M" frequency of pandas
MonthEnds == [m \in 1 .. 12 |-> (DaysBefore(m) + DaysInMonth[m] - 1) * MinutesPerDay]

\* the minutes between two timestamps of a frequency "H" or "D"
StepOf(freq) == IF freq = "H" THEN MinutesPerHour ELSE MinutesPerDay

\* (mutant) the range with both ends
date_range_Closed(start, end, freq) ==
    IF freq = "M" THEN SelectSeq(MonthEnds, LAMBDA t : start <= t /\ t <= end)
    ELSE [k \in 1 .. ((end - start) \div StepOf(freq)) + 1 |-> start + (k - 1) * StepOf(freq)]

\* pd.date_range(start, end, closed="left" / inclusive="left", freq=freq, tz="UTC")
date_range(start, end, freq) ==
    IF freq = "M" THEN SelectSeq(MonthEnds, LAMBDA t : start <= t /\ t < end)
    ELSE [k \in 1 .. ((end - start + StepOf(freq) - 1) \div StepOf(freq)) |->
            start + (k - 1) * StepOf(freq)]

\* (mutant) the dictionary keyed by count instead of count + 1
month_number_name_dict_ZeroBased == [m \in 1 .. 11 |-> MONTHS[m + 1]]

\* month_number_name_dict = {count + 1: month for count, month in enumerate(MONTHS)}
month_number_name_dict == [m \in 1 .. 12 |-> MONTHS[m]]

\* .map(month_number_name_dict): NaN for a key the dictionary does not have
map_month_name(month) ==
    IF month \in DOMAIN month_number_name_dict
        THEN Some(month_number_name_dict[month]) ELSE None

\* the columns of the frame, in the order the inserts leave them
FrameColumns == <<"year", "month", "day", "hour", "month_names", "times", "UTC_time">>

\* the rows of the frame whose index is times
FrameRows(times) ==
    List([k \in DOMAIN times |->
            [times       |-> times[k],
             year        |-> YearOf(times[k]),
             month       |-> MonthOf(times[k]),
             day         |-> DayOf(times[k]),
             hour        |-> HourOf(times[k]),
             month_names |-> map_month_name(MonthOf(times[k])),
             UTC_time    |-> times[k]]])

\* the grid of one tag: the dates are fixed in the code, so the index and the
\* rows depend on the tag alone
Grid(tag) ==
    LET times == List(date_range(0, NextYear, tag))
    IN  [index |-> times, rows |-> FrameRows(times)]

\* the grids of the three tags of Frequency
Grids == [tag \in {HOURLY.value, DAILY.value, MONTHLY.value} |-> Grid(tag)]

\* (mutant) a frequency string of one of the three tags is taken as the tag
dataframe_freq_Lenient(freq) ==
    LET tag == IF "value" \in DOMAIN freq THEN freq.value
               ELSE IF "str" \in DOMAIN freq THEN freq.str ELSE ""
    IN  IF tag \notin DOMAIN Grids THEN [raised |-> "AttributeError"]
        ELSE [raised  |-> "",
              tag     |-> tag,
              columns |-> FrameColumns,
              index   |-> Grids[tag].index,
              rows    |-> Grids[tag].rows]

\* dataframe(frequency): frequency.value raises AttributeError for an object
\* without that attribute
dataframe_freq(freq) ==
    IF "value" \notin DOMAIN freq THEN [raised |-> "AttributeError"]
    ELSE [raised  |-> "",
          tag     |-> freq.value,
          columns |-> FrameColumns,
          index   |-> Grids[freq.value].index,
          rows    |-> Grids[freq.value].rows]

\* dataframe(): the rows of the hourly grid
dataframe == dataframe_freq(HOURLY).rows

----------------------------------------------------------------------------
(* wind_rose(wind_rose)                                                    *)

\* np.inf
Inf == 1000000000

\* spd_bins = [-1, 0.5, 1.5, 3.3, 5.5, 7.9, 10.7, 13.8, 17.1, 20.7, np.inf]
spd_bins == <<-100, 50, 150, 330, 550, 790, 1070, 1380, 1710, 2070, Inf>>

\* _speed_labels(bins, units): one label for each pair of neighbouring edges.
\* "calm" is <<"calm">>, "{left} - {right} {units}" is <<"-", left, right, units>>,
\* ">{left} {units}" is <<">", left, units>>
_speed_labels(bins, units) ==
    [k \in 1 .. (Len(bins) - 1) |->
        IF bins[k] = bins[1] THEN <<"calm">>
        ELSE IF bins[k + 1] = Inf THEN <<">", bins[k], units>>
        ELSE <<"-", bins[k], bins[k + 1], units>>]

\* np.arange(start, stop, step): start + k * step for every k with
\* start + k * step < stop
np_arange(start, stop, step) ==
    [k \in 1 .. ((stop - start + step - 1) \div step) |-> start + (k - 1) * step]

\* dir_bins = np.arange(-22.5 / 2, 370, 22.5)
dir_bins == np_arange(-1125, 37000, 2250)

\* dir_labels = (dir_bins[:-1] + dir_bins[1:]) / 2
dir_labels == [k \in 1 .. (Len(dir_bins) - 1) |-> (dir_bins[k] + dir_bins[k + 1]) \div 2]

\* pd.cut(x, bins=bins, labels=labels, right=right) of one value: the label
\* of the bin that holds x, (bins[k], bins[k+1]] when right and
\* [bins[k], bins[k+1]) when not; NaN for NaN and for a value in no bin
pd_cut(x, bins, labels, right) ==
    IF x = None THEN None
    ELSE LET hit == {k \in 1 .. (Len(bins) - 1) :
                        IF right THEN bins[k] < x[1] /\ x[1] <= bins[k + 1]
                                 ELSE bins[k] <= x[1] /\ x[1] < bins[k + 1]}
         IN  IF hit = {} THEN None ELSE Some(labels[CHOOSE k \in hit : TRUE])

\* .replace({"WindDir_bins": {360: 0}})
replace_360(label) == IF label = Some(36000) THEN Some(0) ELSE label

\* (mutant) the month filter without its wrap-around branch
KeepMonth_NoWrap(month, start_month, end_month) ==
    month >= start_month /\ month <= end_month

\* df["month"] >= start_month & <= end_month, or, when start_month > end_month,
\* df["month"] <= end_month | >= start_month
KeepMonth(month, start_month, end_month) ==
    IF start_month <= end_month
        THEN month >= start_month /\ month <= end_month
        ELSE month <= end_month \/ month >= start_month

\* the same test on df["hour"]
KeepHour(hour, start_hour, end_hour) ==
    IF start_hour <= end_hour
        THEN hour >= start_hour /\ hour <= end_hour
        ELSE hour <= end_hour \/ hour >= start_hour

\* the slots of the frame's rows after the two .loc filters
FilteredIndex(ap) ==
    {i \in Slots : /\ KeepMonth(At(dataframe, i).month, ap.st_month, ap.end_month)
                   /\ KeepHour(At(dataframe, i).hour, ap.st_hour, ap.end_hour)}

\* a number num / den
Frac(num, den) == <<num, den>>

\* (mutant) the calm rows given as a count to every direction row
CalmColumn_Undivided(count, nrows) == Frac(count, 1)

\* .assign(calm=lambda df: calm_count / df.shape[0])
CalmColumn(count, nrows) == Frac(count, nrows)

\* .applymap(lambda x: x / total_count * 100)
Percent(x, total) == Frac(x[1] * 100, x[2] * total)

\* .assign(name=...): the column of that name is replaced when the frame has
\* one, a new last column when not
assign_column(columns, name) ==
    IF \E k \in DOMAIN columns : columns[k] = name THEN columns ELSE Append(columns, name)

\* the position of a label among the categories
Code(label, categories) == CHOOSE k \in DOMAIN categories : categories[k] = label

\* (mutant) the columns sorted the other way round
sort_index_Descending(columns, categories) ==
    [k \in DOMAIN columns |->
        CHOOSE c \in {columns[j] : j \in DOMAIN columns} :
            Cardinality({j \in DOMAIN columns :
                            Code(columns[j], categories) > Code(c, categories)}) = k - 1]

\* .sort_index(axis=1) of a categorical column index: ascending category codes
sort_index(columns, categories) ==
    [k \in DOMAIN columns |->
        CHOOSE c \in {columns[j] : j \in DOMAIN columns} :
            Cardinality({j \in DOMAIN columns :
                            Code(columns[j], categories) < Code(c, categories)}) = k - 1]

\* spd_colors: the legend's colours when there are 11 or more, a ColorRange
\* colour for every edge of spd_bins when there are fewer; the colour that
\* ColorRange gives the value v is <<"color_range", v>>
spd_colors(colors) ==
    IF Len(colors) < 11
        THEN [k \in DOMAIN spd_bins |-> <<"color_range", spd_bins[k]>>]
        ELSE colors

\* for i, col in enumerate(rose.columns): fig.add_trace(go.Barpolar(...))
Barpolars(table, colors) ==
    [i \in DOMAIN table.columns |->
        [r            |-> [d \in DOMAIN table.index |-> table.data[d][i]],
         theta        |-> table.index,
         name         |-> table.columns[i],
         marker_color |-> spd_colors(colors)[i]]]

\* the table: pd.cut of both columns, groupby(...).size().unstack().fillna(0),
\* the calm column, the column sort and the percentages
FrequencyTable(speeds, dirs, index, units) ==
    LET spd_labels == _speed_labels(spd_bins, units)
        WindSpd_bins == List([k \in 1 .. NumSlots |->
            IF (k - 1) \in index
                THEN pd_cut(speeds[k], spd_bins, spd_labels, TRUE) ELSE None])
        WindDir_bins == List([k \in 1 .. NumSlots |->
            IF (k - 1) \in index
                THEN replace_360(pd_cut(dirs[k], dir_bins, dir_labels, FALSE))
                ELSE None])
        \* groupby drops the rows with a NaN key
        keyed == {i \in index : At(WindSpd_bins, i) # None /\ At(WindDir_bins, i) # None}
        \* the categories of the two keys: every one is a row or a column
        rows == SelectSeq(dir_labels, LAMBDA l : l # 36000 \/ \A k \in DOMAIN dir_labels : dir_labels[k] # 0)
        total == Cardinality(index)
        calm == Cardinality({i \in index : At(speeds, i) = Some(0)})
        group(d) == {i \in keyed : At(WindDir_bins, i) = Some(rows[d])}
        size == List([d \in DOMAIN rows |->
                    LET g == group(d)
                    IN  [l \in {spd_labels[k] : k \in DOMAIN spd_labels} |->
                            Frac(Cardinality({i \in g : At(WindSpd_bins, i) = Some(l)}), 1)]
                        @@ <<>>])
        \* assign: the column named "calm" is replaced when there is one, added when not
        assigned == List([d \in DOMAIN rows |->
                        (<<"calm">> :> CalmColumn(calm, Len(rows))) @@ size[d]])
        \* unstack: one column for every category; then assign and sort_index
        columns == sort_index(assign_column(List(spd_labels), <<"calm">>), spd_labels)
    IN  [index   |-> rows,
         columns |-> columns,
         data    |-> List([d \in DOMAIN rows |->
                        List([c \in DOMAIN columns |->
                                Percent(assigned[d][columns[c]], total)])]),
         WindSpd_bins |-> WindSpd_bins,
         WindDir_bins |-> WindDir_bins,
         total_count  |-> total,
         calm_count   |-> calm]

\* wind_rose up to the table: the gap fill of both collections, the frame's
\* two columns, the filter, the table
wind_rose(speed, direction, ap, colors) ==
    LET filled == IF IsHourlyDiscontinuous(speed)
                    THEN <<discontinuous_to_continuous(speed),
                           discontinuous_to_continuous(direction)>>
                    ELSE <<[raised |-> "", values |-> speed.values],
                           [raised |-> "", values |-> direction.values]>>
    IN  IF filled[1].raised # "" THEN [raised |-> filled[1].raised]
        ELSE IF filled[2].raised # "" THEN [raised |-> filled[2].raised]
        ELSE IF Len(filled[1].values) # Len(dataframe) \/ Len(filled[2].values) # Len(dataframe)
               THEN [raised |-> "ValueError"]
        ELSE LET index == FilteredIndex(ap)
                 t == FrequencyTable(filled[1].values, filled[2].values, index, speed.unit)
             IN  [raised |-> "",
                  df |-> [wind_speed |-> filled[1].values,
                          wind_dir |-> filled[2].values,
                          index |-> index,
                          WindSpd_bins |-> t.WindSpd_bins,
                          WindDir_bins |-> t.WindDir_bins],
                  total_count |-> t.total_count,
                  calm_count |-> t.calm_count,
                  rose |-> [index |-> t.index, columns |-> t.columns, data |-> t.data],
                  traces |-> Barpolars(t, colors)]

WindRose ==
    /\ pc = "ready"
    /\ fn' = "wind_rose"
    /\ \E r \in {wind_rose(wind_speed, wind_dir, analysis_period, legend_colors)} :
          IF r.raised # ""
            THEN /\ pc' = "raised"
                 /\ err' = r.raised
                 /\ UNCHANGED <<df, total_count, calm_count, rose, traces>>
            ELSE /\ pc' = "returned"
                 /\ err' = ""
                 /\ df' = r.df
                 /\ total_count' = r.total_count
                 /\ calm_count' = r.calm_count
                 /\ rose' = r.rose
                 /\ traces' = r.traces
    /\ UNCHANGED <<wind_speed, wind_dir, analysis_period, legend_colors>>
    /\ UNCHANGED fillVars
    /\ UNCHANGED monthVars
    /\ UNCHANGED calVars
    /\ UNCHANGED figVars

----------------------------------------------------------------------------
(* Inputs of wind_rose. *)

\* hour 0 (1 Jan 00:00), hour 7296 (1 Nov 00:00)
RoseMoys == {0, 437760}

\* <<speed, direction>>: calm from north; light air from east; both on a bin
\* edge; strong wind from 348.75; gale from 360
RoseObs == {<<0, 0>>, <<30, 9000>>, <<50, 1125>>, <<330, 34875>>, <<2500, 36000>>}

WindCollection(type, datetimes, vals) ==
    [type |-> type, unit |-> "m/s", datetimes |-> datetimes, values |-> vals]

\* the two aligned sparse collections of the observations obs
SparseWind(obs) ==
    <<WindCollection("HourlyDiscontinuousCollection",
                     [k \in DOMAIN obs |-> obs[k][1]], [k \in DOMAIN obs |-> obs[k][2][1]]),
      WindCollection("HourlyDiscontinuousCollection",
                     [k \in DOMAIN obs |-> obs[k][1]], [k \in DOMAIN obs |-> obs[k][2][2]])>>

\* two annual series: hour i holds speed s0 + (i * sb) % sm and direction
\* d0 + (i * db) % dm
CompleteWind(s0, sb, sm, d0, db, dm) ==
    <<WindCollection("HourlyContinuousCollection",
                     List([k \in 1 .. NumSlots |-> (k - 1) * MinutesPerHour]),
                     List([k \in 1 .. NumSlots |-> s0 + (((k - 1) * sb) % sm)])),
      WindCollection("HourlyContinuousCollection",
                     List([k \in 1 .. NumSlots |-> (k - 1) * MinutesPerHour]),
                     List([k \in 1 .. NumSlots |-> d0 + (((k - 1) * db) % dm)]))>>

\* every hour calm from north
AllCalm == CompleteWind(0, 0, 1, 0, 0, 1)

\* every hour 0.3 m/s from east
LightAir == CompleteWind(30, 0, 1, 9000, 0, 1)

\* every hour 5 m/s from 350 degrees
NorthByWest == CompleteWind(500, 0, 1, 35000, 0, 1)

\* speeds 0, 0.1 .. 25.9 and directions 0, 11.25 .. 360, every edge of both
\* sets of bins among them
Sweep == CompleteWind(0, 10, 2600, 0, 1125, 37125)

Period(sm, em, sh, eh) == [st_month |-> sm, end_month |-> em, st_hour |-> sh, end_hour |-> eh]

FullYear == Period(1, 12, 0, 23)

\* the windows tried on the sparse collections
Periods ==
    {FullYear, Period(11, 2, 0, 23), Period(1, 12, 22, 3), Period(11, 2, 22, 3),
     Period(3, 3, 9, 17), Period(12, 1, 23, 0)}

\* the windows tried on the annual series
AnnualPeriods == {FullYear, Period(11, 2, 22, 3)}

SparseWinds ==
    {SparseWind(obs) : obs \in UNION {[1 .. n -> RoseMoys \X RoseObs] : n \in 0 .. MaxObs}}

CompleteWinds == {AllCalm, LightAir, NorthByWest, Sweep}

\* a legend of n colours
Legend(n) == [k \in 1 .. n |-> <<"legend", k>>]

\* the default legend has 10 colours; one of 11 is used as it is
Legends == {Legend(10), Legend(11)}

InitRose ==
    /\ pc = "ready"
    /\ fn = ""
    /\ err = ""
    /\ \E w \in SparseWinds \cup CompleteWinds :
          /\ wind_speed = w[1]
          /\ wind_dir = w[2]
          /\ analysis_period \in (IF w \in CompleteWinds THEN AnnualPeriods ELSE Periods)
          /\ legend_colors \in (IF w \in CompleteWinds /\ analysis_period = FullYear
                                   THEN Legends ELSE {Legend(10)})
    /\ df = Unused /\ total_count = Unused /\ calm_count = Unused /\ rose = Unused
    /\ frequency = Unused /\ data_frame = Unused /\ obtained = Unused
    /\ frames = Unused /\ first_built = Unused /\ prev_fn = Unused
    /\ FigUnused
    /\ traces = Unused
    /\ monthly_per_hour = Unused /\ monthly_values = Unused
    /\ diurnal_data = Unused
    /\ monthly_lower_values = Unused /\ monthly_higher_values = Unused
    /\ hourly_data = Unused /\ min_range = Unused /\ max_range = Unused
    /\ values = Unused /\ data_range = Unused /\ range_z = Unused
    /\ read = Unused

NextRose == WindRose

SpecRose == InitRose /\ [][NextRose]_vars

----------------------------------------------------------------------------
(* get_monthly_values(data)                                                *)

\* range(start, stop, step) for a positive step
py_range(start, stop, step) ==
    [k \in 1 .. (IF stop > start THEN (stop - start + step - 1) \div step ELSE 0) |->
        start + (k - 1) * step]

\* for i in range(24, 312, 24):
\*     values.append([data.values[j] for j in range(i-24, i)])
\* data.values[j] raises IndexError for a j the tuple does not have
get_monthly_values(data_values) ==
    LET starts == py_range(24, 312, 24)
        short  == \E k \in DOMAIN starts :
                     \E j \in (starts[k] - 24) .. (starts[k] - 1) : j >= Len(data_values)
    IN  IF short THEN [raised |-> "IndexError"]
        ELSE [raised |-> "",
              values |-> [k \in DOMAIN starts |->
                            LET js == py_range(starts[k] - 24, starts[k], 1)
                            IN  [h \in DOMAIN js |-> At(data_values, js[h])]]]

GetMonthlyValues ==
    /\ pc = "ready"
    /\ fn' = "get_monthly_values"
    /\ \E r \in {get_monthly_values(monthly_per_hour)} :
          IF r.raised # ""
            THEN /\ pc' = "raised"
                 /\ err' = r.raised
                 /\ UNCHANGED monthly_values
            ELSE /\ pc' = "returned"
                 /\ err' = ""
                 /\ monthly_values' = r.values
    /\ UNCHANGED <<monthly_per_hour, diurnal_data, monthly_lower_values, monthly_higher_values>>
    /\ UNCHANGED fillVars
    /\ UNCHANGED roseVars
    /\ UNCHANGED calVars
    /\ UNCHANGED figVars

----------------------------------------------------------------------------
(* The aggregator behind the diurnal charts, and                           *)
(* diurnal_average_chart_from_hourly(data).                                *)

\* the values of the month m, hour h bucket of an annual hourly series, one
\* for each day of the month
Bucket(vals, m, h) ==
    [d \in 1 .. DaysInMonth[m] |-> At(vals, (DaysBefore(m) + d - 1) * HoursPerDay + h)]

\* the k-th smallest value of a list
OrderStat(vals, k) ==
    CHOOSE v \in {vals[j] : j \in DOMAIN vals} :
        /\ Cardinality({j \in DOMAIN vals : vals[j] < v}) < k
        /\ k <= Cardinality({j \in DOMAIN vals : vals[j] <= v})

\* the percentile p of a bucket: the order statistic at (n - 1) * p / 100,
\* linear interpolation between the two neighbouring ones when that is no
\* whole number
percentile(vals, p) ==
    LET pos == (Len(vals) - 1) * p
        f   == pos \div 100
        r   == pos % 100
    IN  IF r = 0 THEN Frac(OrderStat(vals, f + 1) * 100, 100)
        ELSE Frac(OrderStat(vals, f + 1) * (100 - r) + OrderStat(vals, f + 2) * r, 100)

\* the mean of a bucket
average(vals) == Frac(SumSeq(vals), Len(vals))

\* data.percentile_monthly_per_hour(p): 12 x 24 values, month by month, hour
\* by hour within the month
percentile_monthly_per_hour(vals, p) ==
    [b \in 1 .. 12 * HoursPerDay |->
        percentile(Bucket(vals, ((b - 1) \div HoursPerDay) + 1, (b - 1) % HoursPerDay), p)]

\* data.average_monthly_per_hour()
average_monthly_per_hour(vals) ==
    [b \in 1 .. 12 * HoursPerDay |->
        average(Bucket(vals, ((b - 1) \div HoursPerDay) + 1, (b - 1) % HoursPerDay))]

\* (mutant) the envelopes taken at the quartiles
diurnal_percentiles_Quartiles == <<25, 75>>

\* percentile_monthly_per_hour(0) and percentile_monthly_per_hour(100)
diurnal_percentiles == <<0, 100>>

\* diurnal_average_chart_from_hourly up to its three lists of monthly values
diurnal_average_chart_from_hourly(data) ==
    IF data.type # "HourlyContinuousCollection" THEN [raised |-> "AssertionError"]
    ELSE LET avg == get_monthly_values(average_monthly_per_hour(data.values))
             low == get_monthly_values(
                        percentile_monthly_per_hour(data.values, diurnal_percentiles[1]))
             hi  == get_monthly_values(
                        percentile_monthly_per_hour(data.values, diurnal_percentiles[2]))
         IN  IF avg.raised # "" THEN [raised |-> avg.raised]
             ELSE IF low.raised # "" THEN [raised |-> low.raised]
             ELSE IF hi.raised # "" THEN [raised |-> hi.raised]
             ELSE [raised |-> "",
                   monthly_values |-> avg.values,
                   monthly_lower_values |-> low.values,
                   monthly_higher_values |-> hi.values]

DiurnalAverageChartFromHourly ==
    /\ pc = "ready"
    /\ fn' = "diurnal_average_chart_from_hourly"
    /\ \E r \in {diurnal_average_chart_from_hourly(diurnal_data)} :
          IF r.raised # ""
            THEN /\ pc' = "raised"
                 /\ err' = r.raised
                 /\ UNCHANGED <<monthly_values, monthly_lower_values, monthly_higher_values>>
            ELSE /\ pc' = "returned"
                 /\ err' = ""
                 /\ monthly_values' = r.monthly_values
                 /\ monthly_lower_values' = r.monthly_lower_values
                 /\ monthly_higher_values' = r.monthly_higher_values
    /\ UNCHANGED <<monthly_per_hour, diurnal_data>>
    /\ UNCHANGED fillVars
    /\ UNCHANGED roseVars
    /\ UNCHANGED calVars
    /\ UNCHANGED figVars

----------------------------------------------------------------------------
(* Inputs of get_monthly_values and of the diurnal chart. *)

\* the lengths of data.values: every whole number of months of 24 hours up to
\* one month over the 288 values the loop reads, and one value short of the
\* 288
MonthlyLengths == {m * HoursPerDay : m \in 0 .. 13} \cup {287}

\* data.values of length n whose value j is (j * step) % 2400
MonthlySeries(n, step) == [k \in 1 .. n |-> ((k - 1) * step) % 2400]

\* an annual hourly series whose value at hour i of day d is
\* (d * a + i * b) % m
Annual(type, a, b, m) ==
    [type   |-> type,
     values |-> List([k \in 1 .. NumSlots |->
                        (((k - 1) \div HoursPerDay) * a + ((k - 1) % HoursPerDay) * b) % m])]

\* constant years, years that repeat every day, years with a different
\* spread in every bucket; each as a continuous and as a discontinuous
\* collection
DiurnalInputs ==
    {Annual(type, 37 * j, b, m) :
        type \in {"HourlyContinuousCollection", "HourlyDiscontinuousCollection"},
        j \in 0 .. MaxStep, b \in {0, 7, 100}, m \in {1000, 3000}}

InitMonthly ==
    /\ pc = "ready"
    /\ fn = ""
    /\ err = ""
    /\ monthly_per_hour \in
          {MonthlySeries(n, step) : n \in MonthlyLengths, step \in 1 .. MaxStep}
    /\ diurnal_data = Unused
    /\ monthly_values = Unused
    /\ monthly_lower_values = Unused /\ monthly_higher_values = Unused
    /\ hourly_data = Unused /\ min_range = Unused /\ max_range = Unused
    /\ values = Unused /\ data_range = Unused /\ range_z = Unused
    /\ read = Unused
    /\ wind_speed = Unused /\ wind_dir = Unused /\ analysis_period = Unused
    /\ legend_colors = Unused /\ traces = Unused
    /\ df = Unused /\ total_count = Unused /\ calm_count = Unused /\ rose = Unused
    /\ frequency = Unused /\ data_frame = Unused /\ obtained = Unused
    /\ frames = Unused /\ first_built = Unused /\ prev_fn = Unused
    /\ FigUnused

NextMonthly == GetMonthlyValues

SpecMonthly == InitMonthly /\ [][NextMonthly]_vars

InitDiurnal ==
    /\ pc = "ready"
    /\ fn = ""
    /\ err = ""
    /\ diurnal_data \in DiurnalInputs
    /\ monthly_per_hour = Unused
    /\ monthly_values = Unused
    /\ monthly_lower_values = Unused /\ monthly_higher_values = Unused
    /\ hourly_data = Unused /\ min_range = Unused /\ max_range = Unused
    /\ values = Unused /\ data_range = Unused /\ range_z = Unused
    /\ read = Unused
    /\ wind_speed = Unused /\ wind_dir = Unused /\ analysis_period = Unused
    /\ legend_colors = Unused /\ traces = Unused
    /\ df = Unused /\ total_count = Unused /\ calm_count = Unused /\ rose = Unused
    /\ frequency = Unused /\ data_frame = Unused /\ obtained = Unused
    /\ frames = Unused /\ first_built = Unused /\ prev_fn = Unused
    /\ FigUnused

NextDiurnal == DiurnalAverageChartFromHourly

SpecDiurnal == InitDiurnal /\ [][NextDiurnal]_vars

----------------------------------------------------------------------------
(* A session of calls of dataframe and of the charts that build a grid.    *)
(* A frame is an object: its granularity, its columns, its index.  The     *)
(* caller of dataframe keeps the frame it got until its next call; a chart *)
(* drops its frame, and the filtered copy it made of it, when it returns.  *)

\* (mutant) a frame of the granularity that is still referenced is handed
\* out again
FrameId_Shared(fs, freq) ==
    IF \E k \in DOMAIN fs : fs[k].frequency = freq.value
        THEN Min({k \in DOMAIN fs : fs[k].frequency = freq.value})
        ELSE Len(fs) + 1

\* data_frame = pd.DataFrame(): every call builds a new object
FrameId(fs, freq) == Len(fs) + 1

\* one call of dataframe(freq) among the objects fs: the objects after the
\* call and the one the call returned
Build(fs, freq) ==
    LET g  == dataframe_freq(freq)
        id == FrameId(fs, freq)
    IN  IF g.raised # "" THEN [raised |-> g.raised]
        ELSE [raised |-> "",
              id     |-> id,
              rows   |-> g.rows,
              frames |-> IF id \in DOMAIN fs THEN fs
                         ELSE Append(fs, [frequency |-> g.tag,
                                          columns   |-> g.columns,
                                          index     |-> g.index])]

\* the first frame of each granularity is remembered as it was returned
Remember(fb, frame) ==
    IF fb[frame.frequency] = None THEN [fb EXCEPT ![frame.frequency] = Some(frame)] ELSE fb

\* a caller that keeps the frame and only reads it
Dataframe(freq) ==
    /\ fn' = "dataframe"
    /\ prev_fn' = fn
    /\ frequency' = freq
    /\ \E r \in {Build(frames, freq)} :
          IF r.raised # ""
            THEN /\ pc' = "raised"
                 /\ err' = r.raised
                 /\ UNCHANGED <<data_frame, obtained, frames, first_built>>
            ELSE /\ pc' = "returned"
                 /\ err' = ""
                 /\ obtained' = r.frames[r.id]
                 /\ data_frame' = [columns |-> r.frames[r.id].columns,
                                    rows    |-> r.rows]
                 /\ frames' = <<r.frames[r.id]>>
                 /\ first_built' = Remember(first_built, r.frames[r.id])
    /\ UNCHANGED fillVars
    /\ UNCHANGED roseVars
    /\ UNCHANGED monthVars
    /\ UNCHANGED figVars

\* what a chart does with its grid: the granularity it asks for and the
\* columns it adds (df[var] = ...).  wind_rose's df = df.loc[...] binds its
\* name to a filtered copy and leaves the frame as it is.
ChartKinds ==
    {[fn |-> "heat_map",          freq |-> HOURLY,  adds |-> <<"var">>],
     [fn |-> "_monthly_bar",      freq |-> MONTHLY, adds |-> <<>>],
     [fn |-> "_daily_bar",        freq |-> DAILY,   adds |-> <<>>],
     [fn |-> "hourly_line_chart", freq |-> HOURLY,  adds |-> <<"var">>],
     [fn |-> "wind_rose",         freq |-> HOURLY,  adds |-> <<"wind_speed", "wind_dir">>],
     [fn |-> "sunpath",           freq |-> HOURLY,  adds |-> <<"altitude", "azimuth">>]}

\* a chart up to its use of the grid: it adds its columns to the frame it
\* got; of the objects referenced before the call, the one it wrote to (if
\* dataframe handed it one of them) is changed, the others are as they were
Chart(c) ==
    /\ fn' = c.fn
    /\ prev_fn' = fn
    /\ frequency' = c.freq
    /\ \E r \in {Build(frames, c.freq)} :
          /\ pc' = "returned"
          /\ err' = ""
          /\ obtained' = r.frames[r.id]
          /\ first_built' = Remember(first_built, r.frames[r.id])
          /\ frames' = IF r.id \in DOMAIN frames
                          THEN [frames EXCEPT ![r.id].columns = @ \o c.adds]
                          ELSE frames
    /\ UNCHANGED data_frame
    /\ UNCHANGED fillVars
    /\ UNCHANGED roseVars
    /\ UNCHANGED monthVars
    /\ UNCHANGED figVars

\* the arguments tried on dataframe: the three members of Frequency, the
\* frequency strings of pandas, None
FrequencyArgs ==
    {HOURLY, DAILY, MONTHLY,
     [str |-> "H"], [str |-> "W"], [none |-> TRUE]}

InitCalendar ==
    /\ pc = "ready"
    /\ fn = ""
    /\ err = ""
    /\ prev_fn = ""
    /\ frequency = None
    /\ data_frame = None
    /\ obtained = None
    /\ frames = <<>>
    /\ first_built = [f \in {"H", "D", "M"} |-> None]
    /\ FigUnused
    /\ hourly_data = Unused /\ min_range = Unused /\ max_range = Unused
    /\ values = Unused /\ data_range = Unused /\ range_z = Unused
    /\ read = Unused
    /\ wind_speed = Unused /\ wind_dir = Unused /\ analysis_period = Unused
    /\ legend_colors = Unused /\ traces = Unused
    /\ df = Unused /\ total_count = Unused /\ calm_count = Unused /\ rose = Unused
    /\ monthly_per_hour = Unused /\ monthly_values = Unused
    /\ diurnal_data = Unused
    /\ monthly_lower_values = Unused /\ monthly_higher_values = Unused

NextCalendar ==
    \/ \E freq \in FrequencyArgs : Dataframe(freq)
    \/ \E c \in ChartKinds : Chart(c)

SpecCalendar == InitCalendar /\ [][NextCalendar]_vars

----------------------------------------------------------------------------
(* The charts from their first statement to the title of the figure.       *)
(* A title text is a list of parts, <<"Sunpath - ", var>> for               *)
(* 'Sunpath - ' + var_name.                                                *)

\* bool(title): None and '' are false
Truthy(t) == t # None /\ t[1] # ""

\* the class each chart asserts its data to be; diurnal_average_chart takes
\* an EPW
DataClass ==
    [heat_map                          |-> "HourlyContinuousCollection",
     monthly_bar_chart                 |-> "MonthlyCollection",
     daily_bar_chart                   |-> "DailyCollection",
     hourly_line_chart                 |-> "HourlyContinuousCollection",
     diurnal_average_chart_from_hourly |-> "HourlyContinuousCollection",
     diurnal_average_chart             |-> "EPW",
     wind_rose                         |-> "WindRose",
     bar_chart_with_table              |-> "MonthlyCollection",
     sunpath                           |-> "HourlyContinuousCollection"]

\* what a chart has computed when it gets to the assertion on the class of
\* its data: sunpath builds the grid and the sun positions first
BeforeAssert ==
    [f \in DOMAIN DataClass |->
        IF f = "sunpath" THEN <<"dataframe", "calculate_sun_from_date_time">> ELSE <<>>]

\* what a chart computes between the assertion and the title
BeforeTitle ==
    [heat_map                          |-> <<"discontinuous_to_continuous", "dataframe", "go.Figure">>,
     monthly_bar_chart                 |-> <<"dataframe", "go.Bar", "go.Figure">>,
     daily_bar_chart                   |-> <<"dataframe", "go.Bar", "go.Figure">>,
     hourly_line_chart                 |-> <<"dataframe", "go.Figure">>,
     diurnal_average_chart_from_hourly |-> <<"get_monthly_values", "go.Figure", "add_trace">>,
     diurnal_average_chart             |-> <<"get_monthly_values", "go.Figure", "add_trace">>,
     wind_rose                         |-> <<"discontinuous_to_continuous", "dataframe", "groupby",
                                            "go.Figure", "add_trace">>,
     bar_chart_with_table              |-> <<"make_subplots", "dataframe", "add_trace", "go.Table">>,
     sunpath                           |-> <<"go.Figure", "add_trace">>]

\* the text each chart shows when it is to show a title and has none
DefaultTitle(f, var) ==
    CASE f \in {"heat_map", "monthly_bar_chart", "daily_bar_chart", "hourly_line_chart"} -> <<var>>
      [] f = "diurnal_average_chart_from_hourly" -> <<var, " (", "var_unit", ")">>
      [] f = "diurnal_average_chart" -> <<"Diurnal Average">>
      [] f = "wind_rose" -> <<"Wind Rose">>
      [] f = "bar_chart_with_table" -> <<var>>
      [] f = "sunpath" -> <<"Sunpath - ", var>>

\* title if title else var; sunpath: chart_title = ... if title is None else title
TitleText(f, t, var) ==
    IF f = "sunpath"
        THEN (IF t = None THEN DefaultTitle(f, var) ELSE <<t[1]>>)
        ELSE (IF Truthy(t) THEN <<t[1]>> ELSE DefaultTitle(f, var))

\* (mutant) a title given with show_title False is dropped without an error
fig_title_of_Lenient(f, t, show, var) ==
    IF show THEN [raised |-> "", fig_title |-> Some(TitleText(f, t, var))]
    ELSE [raised |-> "", fig_title |-> None]

\* if show_title: fig_title = {'text': ...}
\* else: if title: raise ValueError(...); fig_title = None
fig_title_of(f, t, show, var) ==
    IF show THEN [raised |-> "", fig_title |-> Some(TitleText(f, t, var))]
    ELSE IF Truthy(t) THEN [raised |-> "ValueError"]
    ELSE [raised |-> "", fig_title |-> None]

\* a chart from its first statement to fig.update_layout(title=fig_title);
\* diurnal_average_chart reads the attributes of its epw without an
\* assertion, so that another object ends in AttributeError
chart(f, type, t, show, var) ==
    IF type # DataClass[f]
        THEN [raised |-> IF f = "diurnal_average_chart" THEN "AttributeError"
                                                         ELSE "AssertionError",
              done   |-> BeforeAssert[f]]
    ELSE LET r == fig_title_of(f, t, show, var)
         IN  IF r.raised # ""
               THEN [raised |-> r.raised, done |-> BeforeAssert[f] \o BeforeTitle[f]]
               ELSE [raised |-> "",
                     done |-> BeforeAssert[f] \o BeforeTitle[f] \o <<"update_layout">>,
                     fig_title |-> r.fig_title]

Plot(f) ==
    /\ pc = "ready"
    /\ fn' = f
    /\ \E r \in {chart(f, data_type, title, show_title, data_name)} :
          /\ done' = r.done
          /\ IF r.raised # ""
               THEN /\ pc' = "raised"
                    /\ err' = r.raised
                    /\ UNCHANGED fig_title
               ELSE /\ pc' = "returned"
                    /\ err' = ""
                    /\ fig_title' = r.fig_title
    /\ UNCHANGED <<title, show_title, data_name, data_type>>
    /\ UNCHANGED barVars
    /\ UNCHANGED psychVars
    /\ UNCHANGED colorVars
    /\ UNCHANGED fillVars
    /\ UNCHANGED roseVars
    /\ UNCHANGED monthVars
    /\ UNCHANGED calVars

\* the titles tried: none, the empty string, the title of test_sunpath
Titles == {None, Some(""), Some("SUNPATH")}

InitTitle ==
    /\ pc = "ready"
    /\ fn = ""
    /\ err = ""
    /\ title \in Titles
    /\ show_title \in BOOLEAN
    /\ data_name \in {"Dry Bulb Temperature", "Wind Speed"}
    /\ data_type \in {DataClass[f] : f \in DOMAIN DataClass} \cup {"str"}
    /\ done = <<>>
    /\ fig_title = None
    /\ bar_data = Unused /\ bar_colors = Unused /\ center_title = Unused
    /\ stack = Unused /\ y_range = Unused /\ bar_layout = Unused
    /\ PsychUnused
    /\ hourly_data = Unused /\ min_range = Unused /\ max_range = Unused
    /\ values = Unused /\ data_range = Unused /\ range_z = Unused
    /\ read = Unused
    /\ wind_speed = Unused /\ wind_dir = Unused /\ analysis_period = Unused
    /\ legend_colors = Unused /\ traces = Unused
    /\ df = Unused /\ total_count = Unused /\ calm_count = Unused /\ rose = Unused
    /\ frequency = Unused /\ data_frame = Unused /\ obtained = Unused
    /\ frames = Unused /\ first_built = Unused /\ prev_fn = Unused
    /\ monthly_per_hour = Unused /\ monthly_values = Unused
    /\ diurnal_data = Unused
    /\ monthly_lower_values = Unused /\ monthly_higher_values = Unused

NextTitle == \E f \in DOMAIN DataClass : Plot(f)

SpecTitle == InitTitle /\ [][NextTitle]_vars

----------------------------------------------------------------------------
(* bar_chart(data, min_range, max_range, colors, title, center_title,      *)
(* stack)                                                                  *)

\* y_range = None if min_range is None or max_range is None
\*           else [min_range, max_range]
y_range_of(mn, mx) == IF mn = None \/ mx = None THEN None ELSE <<mn, mx>>

\* the two assertions, the range, one bar trace for each item, the title,
\* the layout
bar_chart(data, mn, mx, colors, t, center, stk) ==
    IF ~(Len(data) > 0
         /\ \A k \in DOMAIN data : data[k] \in {"MonthlyCollection", "DailyCollection"})
        THEN [raised |-> "AssertionError"]
    ELSE IF colors # None /\ colors[1] # 0 /\ colors[1] # Len(data)
        THEN [raised |-> "AssertionError"]
    ELSE [raised  |-> "",
          y_range |-> y_range_of(mn, mx),
          layout  |-> [traces  |-> [k \in DOMAIN data |->
                                      IF data[k] = "MonthlyCollection" THEN "_monthly_bar"
                                                                       ELSE "_daily_bar"],
                       barmode |-> IF stk THEN "relative" ELSE "group",
                       title   |-> IF t = None THEN None
                                   ELSE Some([text |-> t[1],
                                              x    |-> IF center THEN "0.5" ELSE "0"]),
                       legend  |-> Len(data) <= 3]]

BarChart ==
    /\ pc = "ready"
    /\ fn' = "bar_chart"
    /\ \E r \in {bar_chart(bar_data, min_range, max_range, bar_colors, title,
                            center_title, stack)} :
          IF r.raised # ""
            THEN /\ pc' = "raised"
                 /\ err' = r.raised
                 /\ UNCHANGED <<y_range, bar_layout>>
            ELSE /\ pc' = "returned"
                 /\ err' = ""
                 /\ y_range' = r.y_range
                 /\ bar_layout' = r.layout
    /\ UNCHANGED <<bar_data, bar_colors, center_title, stack>>
    /\ UNCHANGED titleVars
    /\ UNCHANGED psychVars
    /\ UNCHANGED colorVars
    /\ UNCHANGED fillVars
    /\ UNCHANGED roseVars
    /\ UNCHANGED monthVars
    /\ UNCHANGED calVars

\* the lists of data tried: empty, monthly, daily, mixed, four items, an
\* item of another class
BarData ==
    {<<>>, <<"MonthlyCollection">>, <<"DailyCollection">>,
     <<"MonthlyCollection", "DailyCollection">>,
     <<"MonthlyCollection", "MonthlyCollection", "MonthlyCollection", "MonthlyCollection">>,
     <<"MonthlyCollection", "str">>}

\* the ends of the range tried: not given, 0, -5.0, 15.0
BarRangeArgs == {None, Some(0), Some(-500), Some(1500)}

InitBar ==
    /\ pc = "ready"
    /\ fn = ""
    /\ err = ""
    /\ bar_data \in BarData
    /\ min_range \in BarRangeArgs
    /\ max_range \in BarRangeArgs
    /\ bar_colors \in {None, Some(1)}
    /\ title \in {None, Some("SUNPATH")}
    /\ center_title \in BOOLEAN
    /\ stack \in BOOLEAN
    /\ y_range = None
    /\ bar_layout = None
    /\ show_title = Unused /\ data_name = Unused /\ data_type = Unused
    /\ done = Unused /\ fig_title = Unused
    /\ PsychUnused
    /\ hourly_data = Unused
    /\ values = Unused /\ data_range = Unused /\ range_z = Unused
    /\ read = Unused
    /\ wind_speed = Unused /\ wind_dir = Unused /\ analysis_period = Unused
    /\ legend_colors = Unused /\ traces = Unused
    /\ df = Unused /\ total_count = Unused /\ calm_count = Unused /\ rose = Unused
    /\ frequency = Unused /\ data_frame = Unused /\ obtained = Unused
    /\ frames = Unused /\ first_built = Unused /\ prev_fn = Unused
    /\ monthly_per_hour = Unused /\ monthly_values = Unused
    /\ diurnal_data = Unused
    /\ monthly_lower_values = Unused /\ monthly_higher_values = Unused

NextBar == BarChart

SpecBar == InitBar /\ [][NextBar]_vars

----------------------------------------------------------------------------
(* _psych_chart: the polygons of the comfort strategies.                   *)

\* the strategy blocks in the order of the code: the member of Strategy
\* tested, the name and the polygon of the block, whether the block has an
\* else branch that calls strategy_warning, whether it needs solar_data
StrategyBlocks ==
    <<[strategy |-> "evaporative_cooling",   poly_name |-> "Evaporative Cooling",
       poly |-> "ec_poly",  warns |-> TRUE,  solar |-> FALSE],
      [strategy |-> "mas_night_ventilation", poly_name |-> "Mass + Night Ventilation",
       poly |-> "nf_poly",  warns |-> TRUE,  solar |-> FALSE],
      [strategy |-> "occupant_use_of_fans",  poly_name |-> "Occupant Use of Fans",
       poly |-> "fan_poly", warns |-> TRUE,  solar |-> FALSE],
      [strategy |-> "capture_internal_heat", poly_name |-> "Capture Internal Heat",
       poly |-> "iht_poly", warns |-> FALSE, solar |-> FALSE],
      [strategy |-> "passive_solar_heating", poly_name |-> "Passive Solar Heating",
       poly |-> "sol_poly", warns |-> TRUE,  solar |-> TRUE]>>

\* class Strategy(Enum)
Strategy == {StrategyBlocks[k].strategy : k \in DOMAIN StrategyBlocks}

\* polygons.append(poly); polygon_names.append(poly_name);
\* dat = poly_obj.evaluate_polygon(poly, ...); polygon_data.append(dat)
AppendPolygon(l, b) ==
    [l EXCEPT !.polygons      = Append(@, b.poly),
              !.polygon_names = Append(@, b.poly_name),
              !.polygon_data  = Append(@, [of |-> b.poly])]

\* (mutant) the name is appended before the polygon is tested
strategy_block_NameFirst(b, l, requested, solar, fit) ==
    IF b.strategy \notin requested THEN l
    ELSE IF fit
        THEN AppendPolygon(l, b)
        ELSE [l EXCEPT !.polygon_names = Append(@, b.poly_name),
                       !.warned = Append(@, [by |-> "strategy_warning", about |-> b.poly_name])]

\* one block: if Strategy.x in strategies: ... if poly: (three appends)
\* else: strategy_warning(poly_name).  The block of passive solar heating
\* warns and does nothing else without solar_data; the block of capture
\* internal heat has no else branch.
strategy_block(b, l, requested, solar, fit) ==
    IF b.strategy \notin requested THEN l
    ELSE IF b.solar /\ ~solar
        THEN [l EXCEPT !.warned = Append(@, [by |-> "warnings.warn", about |-> b.poly_name])]
    ELSE IF fit THEN AppendPolygon(l, b)
    ELSE IF b.warns
        THEN [l EXCEPT !.warned = Append(@, [by |-> "strategy_warning", about |-> b.poly_name])]
    ELSE l

\* the members of the list strategies; None and [] are false in
\* 'if strategies:'
Requested == IF strategies = None THEN {} ELSE {strategies[1][k] : k \in DOMAIN strategies[1]}

\* if polygon_pmv: the comfort polygon opens the three lists
PsychComfort ==
    /\ pc = "ready"
    /\ fn' = "_psych_chart"
    /\ err' = ""
    /\ IF polygon_pmv
         THEN /\ pc' = "polygons"
              /\ polygons' = <<"comfort_poly">>
              /\ polygon_names' = <<"Comfort">>
              /\ polygon_data' = <<[of |-> "comfort_poly"]>>
              /\ psych_step' = IF Requested = {} THEN Len(StrategyBlocks) ELSE 0
         ELSE /\ pc' = "returned"
              /\ UNCHANGED <<polygons, polygon_names, polygon_data, psych_step>>
    /\ UNCHANGED <<polygon_pmv, strategies, solar_data, warned, psych_traces>>
    /\ UNCHANGED <<titleVars, barVars, colorVars>>
    /\ UNCHANGED fillVars
    /\ UNCHANGED roseVars
    /\ UNCHANGED monthVars
    /\ UNCHANGED calVars

\* the next strategy block; whether its polygon fits is for ladybug_comfort
\* to say
StrategyStep ==
    /\ pc = "polygons"
    /\ psych_step < Len(StrategyBlocks)
    /\ psych_step' = psych_step + 1
    /\ \E fit \in BOOLEAN :
         \E l \in {strategy_block(StrategyBlocks[psych_step + 1],
                                  [polygons |-> polygons, polygon_names |-> polygon_names,
                                   polygon_data |-> polygon_data, warned |-> warned],
                                  Requested, solar_data, fit)} :
            /\ polygons' = l.polygons
            /\ polygon_names' = l.polygon_names
            /\ polygon_data' = l.polygon_data
            /\ warned' = l.warned
    /\ UNCHANGED <<pc, fn, err>>
    /\ UNCHANGED <<polygon_pmv, strategies, solar_data, psych_traces>>
    /\ UNCHANGED <<titleVars, barVars, colorVars>>
    /\ UNCHANGED fillVars
    /\ UNCHANGED roseVars
    /\ UNCHANGED monthVars
    /\ UNCHANGED calVars

\* for count, polygon in enumerate(polygons): a trace of the polygon named
\* polygon_names[count] with the comfort of polygon_data[count]
PsychDraw ==
    /\ pc = "polygons"
    /\ psych_step = Len(StrategyBlocks)
    /\ IF Len(polygon_names) < Len(polygons) \/ Len(polygon_data) < Len(polygons)
         THEN /\ pc' = "raised"
              /\ err' = "IndexError"
              /\ UNCHANGED psych_traces
         ELSE /\ pc' = "returned"
              /\ err' = ""
              /\ psych_traces' = [count \in DOMAIN polygons |->
                                     [polygon |-> polygons[count],
                                      name    |-> polygon_names[count],
                                      comfort |-> polygon_data[count]]]
    /\ UNCHANGED fn
    /\ UNCHANGED <<polygon_pmv, strategies, solar_data, psych_step, polygons,
                   polygon_names, polygon_data, warned>>
    /\ UNCHANGED <<titleVars, barVars, colorVars>>
    /\ UNCHANGED fillVars
    /\ UNCHANGED roseVars
    /\ UNCHANGED monthVars
    /\ UNCHANGED calVars

\* every list of distinct members of Strategy, in every order
StrategyLists ==
    {q \in UNION {[1 .. n -> Strategy] : n \in 0 .. Cardinality(Strategy)} :
        \A i, j \in DOMAIN q : i # j => q[i] # q[j]}

InitPsych ==
    /\ pc = "ready"
    /\ fn = ""
    /\ err = ""
    /\ polygon_pmv \in BOOLEAN
    /\ strategies \in {None} \cup {Some(q) : q \in StrategyLists}
    /\ solar_data \in BOOLEAN
    /\ psych_step = 0
    /\ polygons = <<>>
    /\ polygon_names = <<>>
    /\ polygon_data = <<>>
    /\ warned = <<>>
    /\ psych_traces = <<>>
    /\ colorset = Unused /\ given_colors = Unused /\ colorscale = Unused
    /\ title = Unused /\ show_title = Unused /\ data_name = Unused
    /\ data_type = Unused
    /\ done = Unused /\ fig_title = Unused
    /\ bar_data = Unused /\ bar_colors = Unused /\ center_title = Unused
    /\ stack = Unused /\ y_range = Unused /\ bar_layout = Unused
    /\ hourly_data = Unused /\ min_range = Unused /\ max_range = Unused
    /\ values = Unused /\ data_range = Unused /\ range_z = Unused
    /\ read = Unused
    /\ wind_speed = Unused /\ wind_dir = Unused /\ analysis_period = Unused
    /\ legend_colors = Unused /\ traces = Unused
    /\ df = Unused /\ total_count = Unused /\ calm_count = Unused /\ rose = Unused
    /\ frequency = Unused /\ data_frame = Unused /\ obtained = Unused
    /\ frames = Unused /\ first_built = Unused /\ prev_fn = Unused
    /\ monthly_per_hour = Unused /\ monthly_values = Unused
    /\ diurnal_data = Unused
    /\ monthly_lower_values = Unused /\ monthly_higher_values = Unused

NextPsych == PsychComfort \/ StrategyStep \/ PsychDraw

SpecPsych == InitPsych /\ [][NextPsych]_vars

----------------------------------------------------------------------------
(* The enum ColorSet and the dictionary color_set.                         *)

\* class ColorSet(Enum): the value of every member
ColorSet ==
    [annual_comfort         |-> "annual_comfort",
     benefit                |-> "benefit",
     benefit_harm           |-> "benefit_harm",
     black_to_white         |-> "black_to_white",
     blue_green_red         |-> "blue_green_red",
     cloud_cover            |-> "cloud_cover",
     cold_sensation         |-> "cloud_sensation",
     ecotect                |-> "ecotect",
     energy_balance         |-> "energy_balance",
     energy_balance_storage |-> "energy_balance_storag",
     glare_study            |-> "glare_study",
     harm                   |-> "harm",
     heat_sensation         |-> "heat_sensation",
     multi_colored          |-> "multi_colored",
     multicolored_2         |-> "multicolored_2",
     multicolored_3         |-> "multicolored_3",
     nuanced                |-> "nuanced",
     openstudio_palette     |-> "openstudio_palette",
     original               |-> "original",
     peak_load_balance      |-> "peak_load_balance",
     shade_benefit          |-> "shade_benefit",
     shade_benefit_harm     |-> "shade_benefit_harm",
     shade_harm             |-> "shade_harm",
     shadow_study           |-> "shadow_study",
     therm                  |-> "therm",
     thermal_comfort        |-> "thermal_comfort",
     view_study             |-> "view_study"]

\* color_set = {...}: the keys, each with the ladybug Colorset it holds
color_set ==
    [key \in {"annual_comfort", "benefit", "benefit_harm", "black_to_white",
              "blue_green_red", "cloud_cover", "cold_sensation", "ecotect",
              "energy_balance", "energy_balance_storage", "glare_study", "harm",
              "heat_sensation", "multi_colored", "multicolored_2",
              "multicolored_3", "nuanced", "openstudio_palette", "original",
              "peak_load_balance", "shade_benefit", "shade_benefit_harm",
              "shade_harm", "shadow_study", "therm", "thermal_comfort",
              "view_study"} |-> [Colorset |-> key]]

\* if not colors: colors = color_set[member.value]
legend_colors_of(c, member) ==
    IF c # None /\ c[1] # <<>>
        THEN [raised |-> "", colors |-> c]
    ELSE IF ColorSet[member] \in DOMAIN color_set
        THEN [raised |-> "", colors |-> Some(color_set[ColorSet[member]])]
    ELSE [raised |-> "KeyError", colors |-> None]

\* the colors of a legend: the colors given, or those of the member of
\* ColorSet
LegendColors ==
    /\ pc = "ready"
    /\ fn' = "color_set"
    /\ \E r \in {legend_colors_of(given_colors, colorset)} :
         /\ pc' = IF r.raised = "" THEN "returned" ELSE "raised"
         /\ err' = r.raised
         /\ colorscale' = r.colors
    /\ UNCHANGED <<colorset, given_colors>>
    /\ UNCHANGED <<titleVars, barVars, psychVars>>
    /\ UNCHANGED fillVars
    /\ UNCHANGED roseVars
    /\ UNCHANGED monthVars
    /\ UNCHANGED calVars

\* the colors argument: absent, empty, or a list of one or two colors
ColorArgs == {None, Some(<<>>), Some(<<"#000000">>), Some(<<"#000000", "#FFFFFF">>)}

InitColor ==
    /\ pc = "ready"
    /\ fn = ""
    /\ err = ""
    /\ colorset \in DOMAIN ColorSet
    /\ given_colors \in ColorArgs
    /\ colorscale = None
    /\ polygon_pmv = Unused /\ strategies = Unused /\ solar_data = Unused
    /\ psych_step = Unused /\ polygons = Unused /\ polygon_names = Unused
    /\ polygon_data = Unused /\ warned = Unused /\ psych_traces = Unused
    /\ title = Unused /\ show_title = Unused /\ data_name = Unused
    /\ data_type = Unused
    /\ done = Unused /\ fig_title = Unused
    /\ bar_data = Unused /\ bar_colors = Unused /\ center_title = Unused
    /\ stack = Unused /\ y_range = Unused /\ bar_layout = Unused
    /\ hourly_data = Unused /\ min_range = Unused /\ max_range = Unused
    /\ values = Unused /\ data_range = Unused /\ range_z = Unused
    /\ read = Unused
    /\ wind_speed = Unused /\ wind_dir = Unused /\ analysis_period = Unused
    /\ legend_colors = Unused /\ traces = Unused
    /\ df = Unused /\ total_count = Unused /\ calm_count = Unused /\ rose = Unused
    /\ frequency = Unused /\ data_frame = Unused /\ obtained = Unused
    /\ frames = Unused /\ first_built = Unused /\ prev_fn = Unused
    /\ monthly_per_hour = Unused /\ monthly_values = Unused
    /\ diurnal_data = Unused
    /\ monthly_lower_values = Unused /\ monthly_higher_values = Unused

NextColor == LegendColors

SpecColor == InitColor /\ [][NextColor]_vars

----------------------------------------------------------------------------
(* Properties of the gap filler and of heat_map (SpecFill).                *)

Returned(f) == pc = "returned" /\ fn = f

GapFilled == pc = "returned" /\ fn \in {"discontinuous_to_continuous", "heat_map"}

NumPresent == Len(hourly_data.datetimes)

\* every datetime sits on a whole hour of the year 0..8759, no hour twice
WellFormed ==
    /\ Len(hourly_data.values) = Len(hourly_data.datetimes)
    /\ \A k \in DOMAIN hourly_data.datetimes :
          /\ hourly_data.datetimes[k] % MinutesPerHour = 0
          /\ hourly_data.datetimes[k] \div MinutesPerHour \in Slots
    /\ Cardinality({hourly_data.datetimes[k] : k \in DOMAIN hourly_data.datetimes})
          = Len(hourly_data.datetimes)

InputValues == {hourly_data.values[k] : k \in DOMAIN hourly_data.values}

\* C1: gap-fill completeness.  A returned gap fill of a well-formed series
\* with N < 8760 present slots has exactly the slots 0..8759, holds the
\* input value in every present slot, and exactly N slots are not None
\* (so the other 8760 - N are None, never a number).  The empty series
\* (N = 0) does not return: it raises.
C1_GapFillCompleteness ==
    (GapFilled /\ NumPresent < NumSlots /\ WellFormed) =>
        /\ Len(values) = NumSlots
        /\ \A k \in DOMAIN hourly_data.datetimes :
              At(values, hourly_data.datetimes[k] \div MinutesPerHour)
                  = Some(hourly_data.values[k])
        /\ Cardinality({i \in Slots : At(values, i) # None}) = NumPresent
        /\ Cardinality({i \in Slots : At(values, i) = None}) = NumSlots - NumPresent

\* the scenario {hour 0: 10.0, hour 100: 20.0}
C1_Witness ==
    /\ Returned("discontinuous_to_continuous")
    /\ hourly_data.datetimes = <<0, 6000>>
    /\ hourly_data.values = <<1000, 2000>>
    /\ At(values, 0) = Some(1000)
    /\ At(values, 100) = Some(2000)
    /\ Cardinality({i \in Slots : At(values, i) = None}) = 8758

\* C7: the returned range is the minimum and maximum of the values the input
\* holds, whatever the gaps, and heat_map called without min_range and
\* max_range takes exactly it as zmin, zmax.
C7_RangeFromPresentValues ==
    (GapFilled /\ WellFormed) =>
        /\ data_range = <<Min(InputValues), Max(InputValues)>>
        /\ (fn = "heat_map" /\ min_range = None /\ max_range = None)
              => range_z = <<Min(InputValues), Max(InputValues)>>

C7_Witness ==
    /\ Returned("heat_map")
    /\ min_range = None /\ max_range = None
    /\ hourly_data.datetimes = <<6000, 0>>
    /\ hourly_data.values = <<2000, 1000>>
    /\ At(values, 1) = None
    /\ range_z = <<1000, 2000>>

\* an annual hourly series: one value for every hour 0..8759, in order
IsComplete ==
    /\ Len(hourly_data.datetimes) = NumSlots
    /\ Len(hourly_data.values) = NumSlots
    /\ \A k \in 1 .. NumSlots : hourly_data.datetimes[k] = (k - 1) * MinutesPerHour

\* C8: round trip.  The gap fill of a complete series returns it slot for
\* slot, with the series' minimum and maximum as range.
C8_RoundTrip ==
    (GapFilled /\ IsComplete) =>
        /\ Len(values) = NumSlots
        /\ \A i \in Slots : At(values, i) = Some(At(hourly_data.values, i))
        /\ data_range = <<Min(InputValues), Max(InputValues)>>

C8_Witness ==
    /\ Returned("discontinuous_to_continuous")
    /\ IsComplete
    /\ At(values, 0) = Some(At(hourly_data.values, 0))
    /\ At(values, NumSlots - 1) = Some(At(hourly_data.values, NumSlots - 1))
    /\ At(hourly_data.values, 0) # At(hourly_data.values, 1)
    /\ data_range[1] < data_range[2]

----------------------------------------------------------------------------
(* Properties of wind_rose (SpecRose).                                     *)

RoseReturned == pc = "returned" /\ fn = "wind_rose"

\* the cell x is n / (16 * total) in percent
IsShare(x, n, total) ==
    /\ x[2] # 0
    /\ (16 * total) % x[2] = 0
    /\ x[1] * ((16 * total) \div x[2]) = 100 * n

\* a table cell in 1/16 percent of the total: every cell is num / (total or 16 total)
InSixteenths(x, total) == x[1] * ((16 * total) \div x[2])

\* the sum of all cells of the table, in 1/16 percent
TableSum(total) ==
    SumSeq([d \in DOMAIN rose.data |->
              SumSeq([c \in DOMAIN rose.data[d] |-> InSixteenths(rose.data[d][c], total)])])

\* the column of the table labelled "calm"
CalmCol == CHOOSE c \in DOMAIN rose.columns : rose.columns[c] = <<"calm">>

\* C2: percentage closure.  The cells of the returned table, the calm
\* column included, add up to 100 percent of the rows the filter selected.
C2_PercentageClosure ==
    RoseReturned =>
        \A total \in {Cardinality(df.index)} :
            total > 0 => TableSum(total) = 100 * 16 * total

\* the centre of the compass bin of width 22.5 that holds direction v, the
\* top of the circle folded onto 0
CompassBin(v) == (((v + 1125) \div 2250) % 16) * 2250

\* C3: direction binning.  Every selected row with a direction in [0, 360]
\* is given the centre of its compass bin; from 348.75 up to 360 that is 0.
C3_DirectionBinning ==
    RoseReturned =>
        \A i \in df.index :
            (At(df.wind_dir, i) # None
               /\ At(df.wind_dir, i)[1] >= 0 /\ At(df.wind_dir, i)[1] <= 36000)
            => At(df.WindDir_bins, i) = Some(CompassBin(At(df.wind_dir, i)[1]))

\* the selected rows whose speed lies in speed bin k, (spd_bins[k], spd_bins[k+1]],
\* and which the table put in direction row d
RowsOfCell(d, k) ==
    {i \in df.index :
        /\ At(df.WindDir_bins, i) = Some(rose.index[d])
        /\ At(df.wind_speed, i) # None
        /\ spd_bins[k] < At(df.wind_speed, i)[1]
        /\ At(df.wind_speed, i)[1] <= spd_bins[k + 1]}

\* C4: every cell of the ten speed bins, the first bin (-1, 0.5] included,
\* is the share of the selected rows that fall into it, in percent.
C4_CellIsShare ==
    RoseReturned =>
        \A total \in {Cardinality(df.index)} :
            \A d \in DOMAIN rose.index, k \in 1 .. (Len(spd_bins) - 1) :
                IsShare(rose.data[d][k], 16 * Cardinality(RowsOfCell(d, k)), total)

AllZeroFullYear ==
    /\ analysis_period = FullYear
    /\ \A i \in Slots : At(df.wind_speed, i) = Some(0) /\ At(df.wind_dir, i) = Some(0)

\* C5: the calm convention.  The table has 16 direction rows and the calm
\* cell of each is (selected rows with speed == 0) / 16 in percent of the
\* selected rows; all-zero speed and direction over the full year give 6.25
\* in every calm cell and 0 in every other cell.
C5_CalmConvention ==
    RoseReturned =>
        /\ Len(rose.index) = 16
        /\ \A total \in {Cardinality(df.index)} :
           \A calm \in {Cardinality({i \in df.index : At(df.wind_speed, i) = Some(0)})} :
              \A d \in DOMAIN rose.index :
                  IsShare(rose.data[d][CalmCol], calm, total)
        /\ AllZeroFullYear =>
              \A d \in DOMAIN rose.index, c \in DOMAIN rose.columns :
                  \* 6.25 = NumSlots / (16 * NumSlots) in percent
                  IF c = CalmCol THEN IsShare(rose.data[d][c], NumSlots, NumSlots)
                                 ELSE IsShare(rose.data[d][c], 0, NumSlots)

C5_Witness ==
    /\ RoseReturned
    /\ AllZeroFullYear
    /\ Cardinality(df.index) = NumSlots
    /\ rose.data[1][CalmCol] = Frac(NumSlots * 100, 16 * NumSlots)
    /\ rose.data[16][CalmCol] = Frac(NumSlots * 100, 16 * NumSlots)

\* the slots of the months a..b, of the hours a..b
MonthRange(a, b) == {i \in Slots : a <= At(dataframe, i).month /\ At(dataframe, i).month <= b}

HourRange(a, b) == {i \in Slots : a <= At(dataframe, i).hour /\ At(dataframe, i).hour <= b}

\* C6: filter wrap-around.  The selected slots are those of the inclusive
\* month range and of the inclusive hour range; a range with start > end is
\* the union of [start, last] and [first, end].
C6_FilterWraparound ==
    RoseReturned =>
        df.index =
            (IF analysis_period.st_month <= analysis_period.end_month
               THEN MonthRange(analysis_period.st_month, analysis_period.end_month)
               ELSE MonthRange(analysis_period.st_month, 12)
                      \cup MonthRange(1, analysis_period.end_month))
            \cap
            (IF analysis_period.st_hour <= analysis_period.end_hour
               THEN HourRange(analysis_period.st_hour, analysis_period.end_hour)
               ELSE HourRange(analysis_period.st_hour, 23)
                      \cup HourRange(0, analysis_period.end_hour))

\* months 11..2 and hours 22..3: 1 Jan 00:00, 1 Nov 22:00 and 31 Dec 23:00 are
\* selected, 1 Jan 12:00, 1 Mar 00:00 and 31 Oct 23:00 are not
C6_Witness ==
    /\ RoseReturned
    /\ analysis_period = Period(11, 2, 22, 3)
    /\ {0, 7318, 8759} \subseteq df.index
    /\ df.index \cap {12, 1416, 7295} = {}
    /\ Cardinality(df.index) = (30 + 31 + 31 + 28) * 6

\* C10: the tie-break rule.  A selected row whose speed equals an edge
\* 0.5, 1.5, 3.3, ... of the speed bins is in the bin below the edge; a
\* selected row whose direction equals an edge 11.25, 33.75, ..., 348.75 of
\* the compass bins is in the bin that starts at the edge.
C10_TieBreak ==
    RoseReturned =>
        \A i \in df.index :
            /\ \A k \in 2 .. (Len(spd_bins) - 1) :
                  At(df.wind_speed, i) = Some(spd_bins[k])
                  => At(df.WindSpd_bins, i) = Some(rose.columns[k - 1])
            /\ \A j \in 0 .. 15 :
                  At(df.wind_dir, i) = Some(1125 + 2250 * j)
                  => At(df.WindDir_bins, i) = Some(CompassBin(1125 + 2250 * j))

----------------------------------------------------------------------------
(* Properties of get_monthly_values (SpecMonthly).                         *)

\* C9: the diurnal shape.  Whatever the length of data.values, a call of
\* get_monthly_values returns, and what it returns is 12 buckets of 24 values.
C9_DiurnalShape ==
    (fn = "get_monthly_values" /\ pc # "ready") =>
        /\ pc = "returned"
        /\ Len(monthly_values) = 12
        /\ \A m \in DOMAIN monthly_values : Len(monthly_values[m]) = HoursPerDay

----------------------------------------------------------------------------
(* Properties of the table's order and of the traces (SpecRose).           *)

\* the lower edge a speed label names: the first edge for "calm"
LowerEdge(label) == IF label = <<"calm">> THEN spd_bins[1] ELSE label[2]

\* C11: table ordering.  The columns of the table are the ten speed bins in
\* ascending order, calm first; the rows are the bin centres 0, 22.5, ...,
\* 337.5 in ascending order; the i-th trace carries the i-th column under
\* the i-th colour of spd_colors, and its name is the label of the rows
\* whose speed lies in the i-th speed bin.
C11_TableOrdering ==
    RoseReturned =>
        /\ Len(rose.columns) = Len(spd_bins) - 1
        /\ rose.columns[1] = <<"calm">>
        /\ \A k \in DOMAIN rose.columns : LowerEdge(rose.columns[k]) = spd_bins[k]
        /\ Len(rose.index) = 16
        /\ \A d \in DOMAIN rose.index : rose.index[d] = (d - 1) * 2250
        /\ Len(traces) = Len(rose.columns)
        /\ \A i \in DOMAIN traces :
              /\ traces[i].name = rose.columns[i]
              /\ traces[i].theta = rose.index
              /\ \A d \in DOMAIN rose.index : traces[i].r[d] = rose.data[d][i]
              /\ traces[i].marker_color =
                    (IF Len(legend_colors) < 11 THEN <<"color_range", spd_bins[i]>>
                                                ELSE legend_colors[i])
        /\ \A row \in df.index :
              At(df.wind_speed, row) # None =>
                  \A i \in DOMAIN traces :
                      (spd_bins[i] < At(df.wind_speed, row)[1]
                         /\ At(df.wind_speed, row)[1] <= spd_bins[i + 1])
                      => At(df.WindSpd_bins, row) = Some(traces[i].name)

\* the sweep of all speeds under a legend of 11 colours: the sixth trace is
\* the bin 7.9 - 10.7 m/s in the legend's sixth colour, and it is not empty
C11_Witness ==
    /\ RoseReturned
    /\ legend_colors = Legend(11)
    /\ At(df.wind_speed, 80) = Some(800)
    /\ At(df.WindSpd_bins, 80) = Some(traces[6].name)
    /\ traces[6].name = <<"-", 790, 1070, "m/s">>
    /\ traces[6].marker_color = <<"legend", 6>>
    /\ \E d \in DOMAIN rose.index : traces[6].r[d][1] > 0

----------------------------------------------------------------------------
(* Properties of the diurnal chart (SpecDiurnal).                          *)

DiurnalReturned == pc = "returned" /\ fn = "diurnal_average_chart_from_hourly"

\* the hourly values of the year that fall in month m at hour h
BucketValues(m, h) ==
    {At(diurnal_data.values, (DaysBefore(m) + d) * HoursPerDay + h) :
        d \in 0 .. (DaysInMonth[m] - 1)}

\* C12: percentile boundary agreement.  In each of the 12 x 24 buckets the
\* lower envelope is the least and the upper envelope the greatest hourly
\* value of the bucket, and the average lies between the two.
C12_PercentileBoundary ==
    DiurnalReturned =>
        \A m \in 1 .. 12, h \in 0 .. 23 :
            /\ monthly_lower_values[m][h + 1][2] > 0
            /\ monthly_higher_values[m][h + 1][2] > 0
            /\ monthly_values[m][h + 1][2] > 0
            /\ monthly_lower_values[m][h + 1][1]
                  = Min(BucketValues(m, h)) * monthly_lower_values[m][h + 1][2]
            /\ monthly_higher_values[m][h + 1][1]
                  = Max(BucketValues(m, h)) * monthly_higher_values[m][h + 1][2]
            /\ monthly_lower_values[m][h + 1][1] * monthly_values[m][h + 1][2]
                  <= monthly_values[m][h + 1][1] * monthly_lower_values[m][h + 1][2]
            /\ monthly_values[m][h + 1][1] * monthly_higher_values[m][h + 1][2]
                  <= monthly_higher_values[m][h + 1][1] * monthly_values[m][h + 1][2]

\* a year whose February 03:00 bucket spreads from 147 to 1146 (hundredths):
\* the chart's envelope there is 1.47 .. 11.46 and the average is strictly inside
C12_Witness ==
    /\ DiurnalReturned
    /\ diurnal_data = Annual("HourlyContinuousCollection", 37, 100, 3000)
    /\ Min(BucketValues(2, 3)) < Max(BucketValues(2, 3))
    /\ monthly_lower_values[2][4] = Frac(Min(BucketValues(2, 3)) * 100, 100)
    /\ monthly_higher_values[2][4] = Frac(Max(BucketValues(2, 3)) * 100, 100)
    /\ monthly_lower_values[2][4][1] * monthly_values[2][4][2]
          < monthly_values[2][4][1] * monthly_lower_values[2][4][2]

----------------------------------------------------------------------------
(* Properties of the calendar (SpecCalendar)                               *)

\* a direct call of dataframe has returned its frame
GridReturned == fn = "dataframe" /\ pc = "returned"

\* the slots the specification gives each granularity
SlotsOf(freq) ==
    CASE freq = HOURLY  -> NumSlots
      [] freq = DAILY   -> 365
      [] freq = MONTHLY -> 12

\* C13: the grid has 8760 slots for HOURLY, 365 for DAILY and 12 for
\* MONTHLY; every slot lies in 2019, none in the following year, and the
\* slots are strictly increasing in time.
C13_GridSizeAndOrder ==
    GridReturned =>
        \A rows \in {data_frame.rows} :
            /\ Len(rows) = SlotsOf(frequency)
            /\ \A k \in DOMAIN rows :
                   /\ rows[k].year = 2019
                   /\ 0 <= rows[k].times
                   /\ rows[k].times < NextYear
            /\ \A k \in 1 .. (Len(rows) - 1) : rows[k].times < rows[k + 1].times

\* the monthly grid has been returned, with its last slot on 31 December
C13_Witness ==
    /\ GridReturned
    /\ frequency = MONTHLY
    /\ Len(data_frame.rows) = 12
    /\ data_frame.rows[12].month = 12
    /\ data_frame.rows[12].day = 31

\* C14: in every grid, month is in 1..12, hour in 0..23, month_names is the
\* entry of MONTHS at month - 1 and UTC_time is the timestamp of the index;
\* in the hourly grid, slot i has hour i mod 24 and lies on day
\* (i div 24) + 1 of the year.
C14_SlotAttributes ==
    GridReturned =>
        \A rows \in {data_frame.rows} :
            /\ \A k \in DOMAIN rows :
                   /\ rows[k].month \in 1 .. 12
                   /\ rows[k].hour \in 0 .. 23
                   /\ rows[k].month_names = Some(At(MONTHS, rows[k].month - 1))
                   /\ rows[k].UTC_time = rows[k].times
            /\ frequency = HOURLY =>
                   \A i \in 0 .. (Len(rows) - 1) :
                       /\ At(rows, i).hour = i % 24
                       /\ DaysBefore(At(rows, i).month) + At(rows, i).day = (i \div 24) + 1

\* the hourly grid has been returned: slot 8759 is 23:00 on 31 December
C14_Witness ==
    /\ GridReturned
    /\ frequency = HOURLY
    /\ Len(data_frame.rows) = NumSlots
    /\ At(data_frame.rows, 8759).hour = 23
    /\ At(data_frame.rows, 8759).month = 12
    /\ At(data_frame.rows, 8759).day = 31
    /\ At(data_frame.rows, 8759).month_names = Some("Dec")

\* the calls that obtain a grid
CalendarCalls == {"dataframe"} \cup {c.fn : c \in ChartKinds}

\* C15: after any sequence of calls of heat_map, the bar charts,
\* hourly_line_chart, wind_rose and sunpath, the grid a call obtains is the
\* grid of its granularity as it was first built (length, slot order,
\* columns), and a frame a caller still holds shows no column or row that a
\* chart added or removed.
C15_CalendarNotMutated ==
    (pc = "returned" /\ fn \in CalendarCalls) =>
        /\ obtained = first_built[obtained.frequency][1]
        /\ \A k \in DOMAIN frames : frames[k] = first_built[frames[k].frequency][1]

\* wind_rose added its columns to its hourly grid; the next call, one of
\* dataframe, got the hourly grid with the columns of the first one built
C15_Witness ==
    /\ pc = "returned"
    /\ prev_fn = "wind_rose"
    /\ fn = "dataframe"
    /\ frequency = HOURLY
    /\ obtained.columns = FrameColumns
    /\ Len(obtained.index) = NumSlots
    /\ data_frame.columns = FrameColumns

\* the members of Frequency
Frequency == {HOURLY, DAILY, MONTHLY}

----------------------------------------------------------------------------
(* Properties of the gap filler's failures (SpecFill)                      *)

\* a series of a class the gap filler accepts, without a single value
EmptySeries(data) == IsHourlyDiscontinuous(data) /\ Len(data.values) = 0

\* C16: discontinuous_to_continuous of a discontinuous series without a
\* present slot fails with the error of the undefined range (ValueError from
\* min() of nothing) and returns no series and no range.
C16_EmptyInputFails ==
    (fn = "discontinuous_to_continuous" /\ EmptySeries(hourly_data)) =>
        /\ pc = "raised"
        /\ err = "ValueError"
        /\ values = Unused
        /\ data_range = Unused

\* the call on the empty series has failed after reading its datetimes and
\* values
C16_Witness ==
    /\ fn = "discontinuous_to_continuous"
    /\ hourly_data = Collection("HourlyDiscontinuousCollection", <<>>)
    /\ pc = "raised"
    /\ err = "ValueError"
    /\ read = <<"datetimes", "values">>

\* C17: heat_map guards against a discontinuous series of length zero, so
\* the gap filler is not entered with one: the call neither reads the
\* datetimes of the empty series nor fails with the gap filler's ValueError.
C17_CallersGuard ==
    (fn = "heat_map" /\ EmptySeries(hourly_data)) =>
        /\ read = <<>>
        /\ ~(pc = "raised" /\ err = "ValueError")

\* C18: discontinuous_to_continuous of an argument that is not an hourly
\* discontinuous series fails with the error of the class check
\* (AssertionError) before it reads a timestamp or a value of the argument,
\* and returns nothing.
C18_UnsupportedInputFails ==
    (fn = "discontinuous_to_continuous" /\ ~IsHourlyDiscontinuous(hourly_data)) =>
        /\ pc = "raised"
        /\ err = "AssertionError"
        /\ read = <<>>
        /\ values = Unused
        /\ data_range = Unused

\* the call on a daily collection that holds a value has failed
C18_Witness ==
    /\ fn = "discontinuous_to_continuous"
    /\ hourly_data.type = "DailyCollection"
    /\ Len(hourly_data.values) = 1
    /\ pc = "raised"
    /\ err = "AssertionError"
    /\ read = <<>>

----------------------------------------------------------------------------
(* Properties of the aggregation's failures (SpecMonthly)                  *)

\* C20: the diurnal aggregation refuses, with an error of the ValueError
\* class, an input that does not stand for the 8760 hourly slots: handed
\* monthly-per-hour values that are not the 12 x 24 of a whole year,
\* get_monthly_values fails with ValueError and aggregates nothing.
C20_InputValidation ==
    (fn = "get_monthly_values" /\ Len(monthly_per_hour) # 12 * HoursPerDay) =>
        /\ pc = "raised"
        /\ err = "ValueError"

----------------------------------------------------------------------------
(* Properties of wind_rose's failures (SpecRose)                           *)

\* C21: when the month / hour filter selects no observation, wind_rose fails
\* instead of returning a table: a table that is returned was computed from
\* at least one selected row that holds an observed speed.
C21_EmptyFilterFails ==
    RoseReturned => \E i \in df.index : At(df.wind_speed, i) # None

----------------------------------------------------------------------------
(* Properties of the charts' validation and titles (SpecTitle)             *)

\* C22: every error of a chart is raised before the chart has computed
\* anything: no slot mapping, no calendar grid, no gap fill, no figure and
\* no trace exists when a call ends in an error.
C22_FailFast == pc = "raised" => done = <<>>

\* C23: sunpath with a data collection and the title 'SUNPATH', show_title
\* left at its default False, returns a figure.
C23_SunpathTitled ==
    (/\ fn = "sunpath"
     /\ pc # "ready"
     /\ data_type = DataClass.sunpath
     /\ title = Some("SUNPATH")
     /\ ~show_title) => pc = "returned"

\* the charts that share the title rule
TitledCharts ==
    {"heat_map", "monthly_bar_chart", "daily_bar_chart", "hourly_line_chart",
     "diurnal_average_chart_from_hourly", "diurnal_average_chart", "wind_rose",
     "bar_chart_with_table"}

\* no title was supplied: None or the empty string
NoTitle == title \in {None, Some("")}

\* C26: in the charts that share the title rule, once the data has passed
\* the class assertion: with show_title the figure's title is the supplied
\* title or, without one, the chart's default name; without show_title and
\* without a title the figure has no title; without show_title and with a
\* non-empty title the call ends in ValueError and returns no figure.
C26_TitleRule ==
    (fn \in TitledCharts /\ pc # "ready" /\ data_type = DataClass[fn]) =>
        /\ show_title =>
              /\ pc = "returned"
              /\ fig_title = Some(IF NoTitle THEN DefaultTitle(fn, data_name)
                                             ELSE <<title[1]>>)
        /\ (~show_title /\ NoTitle) => (pc = "returned" /\ fig_title = None)
        /\ (~show_title /\ ~NoTitle) =>
              (pc = "raised" /\ err = "ValueError" /\ fig_title = None)

\* wind_rose(title='SUNPATH') has ended in ValueError
C26_Witness ==
    /\ fn = "wind_rose"
    /\ title = Some("SUNPATH")
    /\ ~show_title
    /\ pc = "raised"
    /\ err = "ValueError"

----------------------------------------------------------------------------
(* Properties of heat_map's series and of the range (SpecFill)             *)

\* C24: heat_map returns for a continuous and for a discontinuous hourly
\* collection alike; the plotted series has 8760 entries, the value of hour
\* h of the data at entry h; the legend range is [minimum, maximum] of the
\* data with each end replaced by min_range / max_range when that argument
\* is given, 0 included, whatever the other argument is.
C24_HeatMapSeriesAndRange ==
    (/\ fn = "heat_map"
     /\ hourly_data.type \in {"HourlyContinuousCollection", "HourlyDiscontinuousCollection"}
     /\ NumPresent > 0
     /\ WellFormed) =>
        /\ pc = "returned"
        /\ Len(values) = NumSlots
        /\ \A k \in DOMAIN hourly_data.datetimes :
              At(values, hourly_data.datetimes[k] \div MinutesPerHour)
                  = Some(hourly_data.values[k])
        /\ range_z[1] = (IF min_range # None THEN min_range[1] ELSE Min(InputValues))
        /\ range_z[2] = (IF max_range # None THEN max_range[1] ELSE Max(InputValues))

\* heat_map of an annual continuous series with values -3.0 .. -2.88 and
\* min_range = 0, max_range not given
C24_Witness ==
    /\ Returned("heat_map")
    /\ hourly_data.type = "HourlyContinuousCollection"
    /\ IsComplete
    /\ min_range = Some(0)
    /\ max_range = None
    /\ Min(InputValues) < 0
    /\ range_z = <<0, Max(InputValues)>>

\* the values of the slots of the returned series that are not None
PresentValues == {At(values, i)[1] : i \in {j \in Slots : At(values, j) # None}}

\* C30: for every series the gap filler accepts, timestamps off the whole
\* hour or beyond hour 8759 included, the returned range is the minimum and
\* maximum of the slots of the returned series that are not None.
C30_RangeOfReturnedSeries ==
    Returned("discontinuous_to_continuous") =>
        /\ PresentValues # {}
        /\ data_range = <<Min(PresentValues), Max(PresentValues)>>

----------------------------------------------------------------------------
(* Properties of bar_chart (SpecBar)                                       *)

\* the end k of the y axis: None when plotly calculates it from the data
AxisEnd(k) == IF y_range = None THEN None ELSE Some(y_range[k][1])

\* C25: in a figure bar_chart returned, the lower end of the y axis is
\* min_range when min_range is given and calculated from the data only when
\* min_range is None; the upper end likewise with max_range; neither end
\* depends on the other argument.
C25_AxisRange ==
    Returned("bar_chart") =>
        /\ AxisEnd(1) = min_range
        /\ AxisEnd(2) = max_range

----------------------------------------------------------------------------
(* Properties of the polygons of _psych_chart.                             *)

\* the place of a polygon name in the fixed order of the legend
NameRank(name) ==
    IF name = "Comfort" THEN 0
    ELSE CHOOSE k \in DOMAIN StrategyBlocks : StrategyBlocks[k].poly_name = name

\* the polygon a legend name stands for
PolygonOf(name) ==
    IF name = "Comfort" THEN "comfort_poly"
    ELSE StrategyBlocks[NameRank(name)].poly

\* C27: in _psych_chart with a polygon_pmv, whatever the subset and the
\* order of the requested strategies and whether each polygon fits or not,
\* after the comfort step and after every strategy step the lists
\* polygons, polygon_names and polygon_data have the same length, the
\* comfort polygon is at index 0, the other entries follow the fixed order
\* Evaporative Cooling, Mass + Night Ventilation, Occupant Use of Fans,
\* Capture Internal Heat, Passive Solar Heating, and the name and the
\* comfort data at index i, in the lists and in the drawn traces, are those
\* of polygon i.
C27_PolygonBookkeeping ==
    (fn = "_psych_chart" /\ polygon_pmv) =>
        /\ pc # "raised"
        /\ Len(polygon_names) = Len(polygons)
        /\ Len(polygon_data) = Len(polygons)
        /\ polygons[1] = "comfort_poly"
        /\ polygon_names[1] = "Comfort"
        /\ \A i, j \in DOMAIN polygon_names :
              i < j => NameRank(polygon_names[i]) < NameRank(polygon_names[j])
        /\ \A i \in DOMAIN polygons :
              /\ polygons[i] = PolygonOf(polygon_names[i])
              /\ polygon_data[i].of = polygons[i]
        /\ pc = "returned" =>
              /\ Len(psych_traces) = Len(polygons)
              /\ \A i \in DOMAIN polygons :
                    /\ psych_traces[i].polygon = polygons[i]
                    /\ psych_traces[i].name = polygon_names[i]
                    /\ psych_traces[i].comfort.of = polygons[i]

\* all five strategies asked for in the reverse of the order of the code,
\* two of the polygons do not fit, and the chart is drawn
C27_Witness ==
    /\ fn = "_psych_chart"
    /\ pc = "returned"
    /\ polygon_pmv
    /\ strategies = Some(<<"passive_solar_heating", "capture_internal_heat",
                           "occupant_use_of_fans", "mas_night_ventilation",
                           "evaporative_cooling">>)
    /\ polygon_names = <<"Comfort", "Mass + Night Ventilation",
                         "Capture Internal Heat", "Passive Solar Heating">>
    /\ Len(psych_traces) = 4

\* C28: a requested strategy never vanishes silently: when _psych_chart
\* with a polygon_pmv has gone through the strategy blocks, every requested
\* strategy that added no polygon (its polygon does not fit, or passive
\* solar heating without solar_data) has a warning that names it.
C28_NoSilentDrop ==
    (fn = "_psych_chart" /\ polygon_pmv /\ pc = "returned") =>
        \A k \in DOMAIN StrategyBlocks :
            (/\ StrategyBlocks[k].strategy \in Requested
             /\ \A i \in DOMAIN polygons : polygons[i] # StrategyBlocks[k].poly)
            => \E w \in DOMAIN warned : warned[w].about = StrategyBlocks[k].poly_name

----------------------------------------------------------------------------
(* Properties of ColorSet and color_set.                                   *)

\* C29: the value of every member of the enum ColorSet is a key of the
\* dictionary color_set: whenever the colors of a legend are looked up
\* under a member, color_set[member.value] succeeds and gives the colors
\* stored under that value.
C29_EveryMemberHasKey ==
    (fn = "color_set" /\ (given_colors = None \/ given_colors = Some(<<>>))) =>
        /\ pc = "returned"
        /\ ColorSet[colorset] \in DOMAIN color_set
        /\ colorscale = Some(color_set[ColorSet[colorset]])

====
